---------------------------- MODULE Spec2Model ----------------------------
(***************************************************************************)
(* Risk-scoring core of georischio: backend/ml_forecast.py                 *)
(*   FeatureEngineering  (terrain sampler, weather sampler, feature vector)*)
(*   RiskPredictor       (training-set assembly, train, predict, save/load)*)
(*                                                                         *)
(* Conventions of the model                                                *)
(*   - latitudes and longitudes are integers in tenths of a degree         *)
(*     (45.4 is 454), so the range checks and the terrain fallback         *)
(*     200 + (lat - 45.4) * 1500 are exact integer arithmetic;             *)
(*   - risk scores are integers in tenths of a point (29.9 is 299);        *)
(*   - precipitation values are integers (mm);                             *)
(*   - a Python exception is the name of its class, "none" when the call   *)
(*     returns; Ancestors gives the classes an except clause matches.      *)
(***************************************************************************)
EXTENDS Integers, Sequences, FiniteSets, TLC

VARIABLES
    \* ---- RiskPredictor object (ml_forecast.py:194-200)
    model,              \* self.model
    scaler,             \* self.scaler
    feature_names_,     \* self.feature_names_
    feature_engineer,   \* self.feature_engineer
    config,             \* self.config, the 'model' section given to __init__
    \* ---- model artifact on disk (joblib file of save_model / load_model)
    file,
    \* ---- the last RiskPredictor call: name, exception that left it, results
    op, exc, predictions, raw_scores, X_out, y_out,
    events_in,          \* the historical_events of the last prepare_training_data
    q_in,               \* the locations of the last predict and the provider's answers
    \* ---- history of the last call
    pre,                \* (model, scaler, feature_names_) when the call started
    n_requests,         \* weather requests issued during the call
    n_vectors,          \* create_feature_vector calls made during the call
    ever_ready,         \* a train or a load_model call has returned normally
    saved,              \* the triple and the query scores at the last save_model
    \* ---- the arguments and the environment of one prepare_training_data call
    a_in,
    \* ---- one call of extract_weather_features
    w_in, w_out,
    \* ---- one call of extract_terrain_features
    t_in, t_out,
    \* ---- one pass of the alert tiering of predict
    c_in, c_out,
    \* ---- one call of create_feature_vector
    v_in, v_out,
    \* ---- one call of PredictionPostProcessor.enrich_predictions
    e_in, e_out,
    \* ---- where a run of the MLPipeline steps stands, and its force_retrain
    pc

vars == << model, scaler, feature_names_, feature_engineer, config, file,
           op, exc, predictions, raw_scores, q_in, X_out, y_out, events_in,
           pre, n_requests, n_vectors, ever_ready, saved,
           a_in, w_in, w_out, t_in, t_out, c_in, c_out, v_in, v_out, e_in, e_out, pc >>

predictor_vars == << model, scaler, feature_names_, feature_engineer, config, file,
                     op, exc, predictions, raw_scores, q_in, X_out, y_out, events_in,
                     pre, n_requests, n_vectors, ever_ready, saved >>

-----------------------------------------------------------------------------
(* Bounds of the model *)

MaxPastDays == 4        \* largest configured weather_past_days
MaxForecastDays == 2    \* largest configured weather_forecast_days
MaxDays == 5            \* longest enumerated precipitation_sum list

-----------------------------------------------------------------------------
(* Python helpers *)

RECURSIVE SumSeq(_)
SumSeq(s) == IF s = << >> THEN 0 ELSE Head(s) + SumSeq(Tail(s))

\* clamp of a slice bound to 0..n, negative bounds counted from the end
SliceBound(i, n) ==
    IF i < 0 THEN (IF i + n < 0 THEN 0 ELSE i + n)
    ELSE (IF i > n THEN n ELSE i)

\* s[a:b] of a Python list, a and b 0-based
PySlice(s, a, b) ==
    LET n  == Len(s)
        lo == SliceBound(a, n)
        hi == SliceBound(b, n)
    IN  IF hi > lo THEN [k \in 1..(hi - lo) |-> s[lo + k]] ELSE << >>

\* s[a:] of a Python list
PySliceFrom(s, a) == PySlice(s, a, Len(s))

\* whether s[i] of a Python list is an IndexError
PyIndexFails(s, i) == i >= Len(s) \/ i < 0 - Len(s)

\* s[i] of a Python list, i 0-based, negative i counted from the end
PyIndex(s, i) == IF i < 0 THEN s[i + Len(s) + 1] ELSE s[i + 1]

\* dict.get(key, default)
ConfigGet(cfg, key, default) == IF key \in DOMAIN cfg THEN cfg[key] ELSE default

\* the classes an `except` clause naming them would match for exception e
Ancestors(e) ==
    CASE e = "ConnectionError"  -> {"ConnectionError", "RequestException", "OSError", "Exception"}
      [] e = "Timeout"          -> {"Timeout", "RequestException", "OSError", "Exception"}
      [] e = "HTTPError"        -> {"HTTPError", "RequestException", "OSError", "Exception"}
      [] e = "JSONDecodeError"  -> {"JSONDecodeError", "ValueError", "Exception"}
      [] e = "RasterioIOError"  -> {"RasterioIOError", "OSError", "Exception"}
      [] e = "NotFittedError"   -> {"NotFittedError", "ValueError", "AttributeError", "Exception"}
      [] OTHER                  -> {e, "Exception"}

Catches(classes, e) == e # "none" /\ Ancestors(e) \cap classes # {}


-----------------------------------------------------------------------------
(* WeatherSampler: FeatureEngineering.extract_weather_features             *)
(* ml_forecast.py:118-174                                                  *)

\* fallback_data (ml_forecast.py:120-125)
FallbackData ==
    [precip_1d_past |-> 5, precip_3d_past |-> 15,
     precip_7d_past |-> 30, precip_3d_forecast |-> 10]

\* faulty variant: the fallback lists the forecast first
WeatherFallbackKeysSwapped ==
    << "precip_3d_forecast", "precip_1d_past", "precip_3d_past", "precip_7d_past" >>

\* the keys of fallback_data in insertion order (ml_forecast.py:120-125)
WeatherFallbackKeys ==
    << "precip_1d_past", "precip_3d_past", "precip_7d_past", "precip_3d_forecast" >>

\* the keys of the dict of ml_forecast.py:165-170 in insertion order
WeatherKeys ==
    << "precip_1d_past", "precip_3d_past", "precip_7d_past", "precip_3d_forecast" >>

\* placeholder for "no dict was returned" (the call raised, or was not made)
NoData ==
    [precip_1d_past |-> -1, precip_3d_past |-> -1,
     precip_7d_past |-> -1, precip_3d_forecast |-> -1]

\* faulty variant: only the latitude is validated
CoordsInvalidLatOnly(lat, lon) == ~(-900 <= lat /\ lat <= 900)

\* the coordinate validation of ml_forecast.py:128
CoordsInvalid(lat, lon) == ~(-900 <= lat /\ lat <= 900) \/ ~(-1800 <= lon /\ lon <= 1800)

\* faulty variant: a failed request is not handled
WeatherCaughtNoRequest == {"ValueError", "KeyError"}

\* the exception classes of the except clause of ml_forecast.py:172
WeatherCaught == {"RequestException", "ValueError", "KeyError"}

\* `key in x` for a decoded JSON value of shape x: a TypeError on null and on
\* a number, the membership test on a dict, a list and a string
PyContains(shape, has) ==
    IF shape \in {"null", "number"} THEN "TypeError"
    ELSE IF has THEN "True" ELSE "False"

\* x[key] with a string key: only a dict can be indexed by it
PyGetItemFails(shape) == shape # "dict"

\* float(p) for one item of precipitation_sum; None never reaches float()
FloatFails(e) ==
    CASE e.k = "badstr" -> "ValueError"
      [] e.k = "list"   -> "TypeError"
      [] OTHER          -> "none"

\* float(p) if p is not None else 0.0   (ml_forecast.py:157)
FloatOrZero(e) == IF e.k = "null" THEN 0 ELSE e.n

\* the exception of the list comprehension of line 157: that of the first
\* item float() rejects
ComprehensionExc(items) ==
    LET bad == {i \in 1..Len(items) : FloatFails(items[i]) # "none"}
    IN  IF bad = {} THEN "none"
        ELSE FloatFails(items[CHOOSE i \in bad : \A j \in bad : i <= j])

\* the body of the try block, ml_forecast.py:142-170: the exception it ends
\* with ("none": it returned) and the dict it returned
WeatherTry(cfg, resp) ==
    LET raise(e) == [exc |-> e, ret |-> NoData, keys |-> << >>]
        inData   == PyContains(resp.data, resp.data_has_daily)
        inDaily  == PyContains(resp.daily, resp.daily_has_precip)
        precip   == [i \in 1..Len(resp.days) |-> FloatOrZero(resp.days[i])]
        num_past == ConfigGet(cfg, "weather_past_days", 7)
    IN  \* requests.get(..., timeout=10)
        IF resp.stage \in {"ConnectionError", "Timeout"} THEN raise(resp.stage)
        \* response.raise_for_status()
        ELSE IF resp.stage = "HTTPError" THEN raise("HTTPError")
        \* data = response.json()
        ELSE IF resp.stage = "NotJSON" THEN raise("JSONDecodeError")
        \* if 'daily' not in data or 'precipitation_sum' not in data['daily']
        ELSE IF inData = "TypeError" THEN raise("TypeError")
        ELSE IF inData = "False" THEN raise("ValueError")
        ELSE IF PyGetItemFails(resp.data) THEN raise("TypeError")
        ELSE IF inDaily = "TypeError" THEN raise("TypeError")
        ELSE IF inDaily = "False" THEN raise("ValueError")
        \* precip_raw = data['daily']['precipitation_sum']
        ELSE IF PyGetItemFails(resp.daily) THEN raise("TypeError")
        \* precip = [float(p) if p is not None else 0.0 for p in precip_raw]
        ELSE IF resp.precip \in {"null", "number"} THEN raise("TypeError")
        ELSE IF ComprehensionExc(resp.days) # "none"
             THEN raise(ComprehensionExc(resp.days))
        \* if len(precip) < num_past: return fallback_data
        ELSE IF Len(precip) < num_past
             THEN [exc |-> "none", ret |-> FallbackData, keys |-> WeatherFallbackKeys]
        \* precip[num_past-1]
        ELSE IF PyIndexFails(precip, num_past - 1) THEN raise("IndexError")
        ELSE [exc |-> "none",
              ret |-> [precip_1d_past     |-> PyIndex(precip, num_past - 1),
                       precip_3d_past     |-> SumSeq(PySlice(precip, num_past - 3, num_past)),
                       precip_7d_past     |-> SumSeq(PySlice(precip, 0, num_past)),
                       precip_3d_forecast |-> SumSeq(PySliceFrom(precip, num_past))],
              keys |-> WeatherKeys]

\* the try/except of ml_forecast.py:141-174: what is caught becomes the fallback
WeatherExcept(body) ==
    IF body.exc = "none"
    THEN [exc |-> "none", ret |-> body.ret, keys |-> body.keys, requests |-> 1]
    ELSE IF Catches(WeatherCaught, body.exc)
         THEN [exc |-> "none", ret |-> FallbackData, keys |-> WeatherFallbackKeys,
               requests |-> 1]
    ELSE [exc |-> body.exc, ret |-> NoData, keys |-> << >>, requests |-> 1]

WeatherHandled(cfg, resp) == WeatherExcept(WeatherTry(cfg, resp))

\* extract_weather_features(lat, lon): the exception that leaves the call,
\* the dict returned, the number of requests.get calls made
ExtractWeatherFeatures(lat, lon, cfg, resp) ==
    IF CoordsInvalid(lat, lon)
    THEN [exc |-> "none", ret |-> FallbackData, keys |-> WeatherFallbackKeys,
          requests |-> 0]
    ELSE WeatherHandled(cfg, resp)

-----------------------------------------------------------------------------
(* TerrainSampler: FeatureEngineering.extract_terrain_features             *)
(* ml_forecast.py:65-116                                                   *)
(* A raster source is a record                                             *)
(*   configured  dem_path was given           exists   the path exists     *)
(*   opens       rasterio.open succeeds       crs      "none" or a CRS     *)
(*   overlap     the buffer meets the raster  reads    the band read works *)
(*   band        the cells of the masked window, row-major                 *)

MinDemCells == 10       \* ml_forecast.py:94

\* the raster's declared no-data value (data_ingestion.py:75 writes -9999)
NoDataValue == 0 - 9999

\* faulty variant: a ValueError is not caught
TerrainCaughtNoValueError == {"RasterioIOError", "IndexError"}

\* the exception classes of the except clause of ml_forecast.py:105
TerrainCaught == {"ValueError", "RasterioIOError", "IndexError"}

NoTerrain ==
    [elevation_mean |-> -1, elevation_std |-> -1, slope_mean |-> -1, roughness |-> -1]

\* the keys of the dict of ml_forecast.py:99-104 in insertion order
RasterKeys == << "elevation_mean", "elevation_std", "slope_mean", "roughness" >>

\* the keys of the dict of ml_forecast.py:111-116 in insertion order
TerrainFallbackKeys == << "elevation_mean", "elevation_std", "slope_mean", "roughness" >>

\* faulty variant: the slope estimate ignores the latitude
TerrainFallbackFlat(lat) ==
    [elevation_mean |-> 200 + (lat - 454) * 150,
     elevation_std  |-> 150,
     slope_mean     |-> 5,
     roughness      |-> 20]

\* the fallback of ml_forecast.py:108-116, lat in tenths of a degree:
\* 200 + (lat - 45.4) * 1500 and 5 + (lat - 45.4) * 20
TerrainFallback(lat) ==
    [elevation_mean |-> 200 + (lat - 454) * 150,
     elevation_std  |-> 150,
     slope_mean     |-> 5 + (lat - 454) * 2,
     roughness      |-> 20]

\* out_image[0][out_image[0] != dem.nodata]: boolean-mask indexing gives the
\* valid cells as a ONE-dimensional array
ElevationData(band) == SelectSeq(band, LAMBDA c : c # NoDataValue)

\* largest r with r * r <= n
Isqrt(n) == CHOOSE r \in 0..n : r * r <= n /\ (r + 1) * (r + 1) > n

\* np.mean and np.std of a one-dimensional array, rounded down
Mean(a) == SumSeq(a) \div Len(a)
Std(a) ==
    LET m == Mean(a)
    IN  Isqrt(SumSeq([i \in 1..Len(a) |-> (a[i] - m) * (a[i] - m)]) \div Len(a))

\* np.gradient of a one-dimensional array is ONE array of the same length
\* (central differences inside, one-sided at the ends)
Gradient1D(a) ==
    [i \in 1..Len(a) |->
        IF i = 1 THEN a[2] - a[1]
        ELSE IF i = Len(a) THEN a[i] - a[i - 1]
        ELSE (a[i + 1] - a[i - 1]) \div 2]

\* `dy, dx = np.gradient(elevation_data)`: unpacking an array into two names
\* is a ValueError unless the array has exactly two items
UnpackTwoFails(a) == Len(a) # 2

\* ndimage.uniform_filter(a, size=3) of a one-dimensional array (reflect mode)
UniformFilter3(a) ==
    LET at(i) == IF i < 1 THEN a[1] ELSE IF i > Len(a) THEN a[Len(a)] ELSE a[i]
    IN  [i \in 1..Len(a) |-> (at(i - 1) + at(i) + at(i + 1)) \div 3]

\* the dict of ml_forecast.py:99-104, where dy and dx are the two items of the
\* unpacked gradient
RasterStats(a) ==
    LET g  == Gradient1D(a)
        dy == g[1]
        dx == g[2]
        u  == UniformFilter3(a)
    IN  [elevation_mean |-> Mean(a),
         elevation_std  |-> Std(a),
         slope_mean     |-> Isqrt(dx * dx + dy * dy),
         roughness      |-> Std([i \in 1..Len(a) |-> a[i] - u[i]])]

\* the body of the try block, ml_forecast.py:71-104
TerrainTry(dem) ==
    LET raise(e) == [exc |-> e, ret |-> NoTerrain]
        elevation_data == ElevationData(dem.band)
    IN  \* rasterio.open(self.dem_path)
        IF ~dem.opens THEN raise("RasterioIOError")
        \* buffer_utm.to_crs(dem.crs): geopandas rejects a missing CRS
        ELSE IF dem.crs = "none" THEN raise("ValueError")
        \* mask(dem, shapes, crop=True): "Input shapes do not overlap raster."
        ELSE IF ~dem.overlap THEN raise("ValueError")
        \* mask(...) reads the band
        ELSE IF ~dem.reads THEN raise("RasterioIOError")
        \* if elevation_data.size < 10: raise ValueError
        ELSE IF Len(elevation_data) < MinDemCells THEN raise("ValueError")
        \* dy, dx = np.gradient(elevation_data)
        ELSE IF UnpackTwoFails(Gradient1D(elevation_data)) THEN raise("ValueError")
        ELSE [exc |-> "none", ret |-> RasterStats(elevation_data)]

\* extract_terrain_features(geometry): the exception that leaves the call, the
\* dict returned and where it came from
TerrainExcept(body, fallback) ==
    IF body.exc = "none"
    THEN [exc |-> "none", ret |-> body.ret, keys |-> RasterKeys, source |-> "raster"]
    ELSE IF Catches(TerrainCaught, body.exc) THEN fallback
    ELSE [exc |-> body.exc, ret |-> NoTerrain, keys |-> << >>, source |-> "none"]

ExtractTerrainFeatures(lat, dem) ==
    LET fallback == [exc |-> "none", ret |-> TerrainFallback(lat),
                     keys |-> TerrainFallbackKeys, source |-> "fallback"]
    IN  \* if self.dem_path and self.dem_path.exists()
        IF ~(dem.configured /\ dem.exists) THEN fallback
        ELSE TerrainExcept(TerrainTry(dem), fallback)


-----------------------------------------------------------------------------
(* FeatureBuilder: FeatureEngineering.create_feature_vector                *)
(* ml_forecast.py:176-188                                                  *)
(* A date is [kind, ord]: kind "datetime" (ord = its day number), "None"   *)
(* or "NaT", the two values pd.to_datetime gives for a null.               *)

\* the columns of the one-row frame, in the insertion order of the dict
FeatureOrder ==
    << "elevation_mean", "elevation_std", "slope_mean", "roughness",
       "precip_1d_past", "precip_3d_past", "precip_7d_past", "precip_3d_forecast",
       "month", "day_of_year", "latitude", "longitude" >>

\* date.timetuple().tm_yday and date.month on a calendar of 365-day years
\* and 31-day months
DayOfYear(ord) == (ord % 365) + 1
Month(ord) == ((DayOfYear(ord) - 1) \div 31) + 1

\* a float NaN, as a number no feature and no label takes
NaN == 0 - 99999

NoVector == [f \in {} |-> 0]

\* the keys added at ml_forecast.py:183-186, in that order
DateKeys == << "month", "day_of_year", "latitude", "longitude" >>

\* the row built from what the two samplers gave (lines 179-188): the
\* exception that ends the call, the row, the requests made
FeatureRow(terrain, weather, lat, lon, date) ==
    LET raise(e, n) == [exc |-> e, vec |-> NoVector, columns |-> << >>, requests |-> n]
    IN  \* features.update(self.extract_terrain_features(point))
        IF terrain.exc # "none" THEN raise(terrain.exc, 0)
        \* features.update(self.extract_weather_features(lat, lon))
        ELSE IF weather.exc # "none" THEN raise(weather.exc, weather.requests)
        \* features['month'] = date.month
        ELSE IF date.kind = "None" THEN raise("AttributeError", weather.requests)
        \* features['day_of_year'] = date.timetuple().tm_yday
        ELSE IF date.kind = "NaT" THEN raise("ValueError", weather.requests)
        ELSE [exc |-> "none",
              vec |-> [elevation_mean     |-> terrain.ret.elevation_mean,
                       elevation_std      |-> terrain.ret.elevation_std,
                       slope_mean         |-> terrain.ret.slope_mean,
                       roughness          |-> terrain.ret.roughness,
                       precip_1d_past     |-> weather.ret.precip_1d_past,
                       precip_3d_past     |-> weather.ret.precip_3d_past,
                       precip_7d_past     |-> weather.ret.precip_7d_past,
                       precip_3d_forecast |-> weather.ret.precip_3d_forecast,
                       month              |-> Month(date.ord),
                       day_of_year        |-> DayOfYear(date.ord),
                       latitude           |-> lat,
                       longitude          |-> lon],
              \* pd.DataFrame([features]): the keys in insertion order
              columns |-> terrain.keys \o weather.keys \o DateKeys,
              requests |-> weather.requests]

\* create_feature_vector(lat, lon, date) on a FeatureEngineering object fe
CreateFeatureVector(fe, lat, lon, date, resp) ==
    FeatureRow(ExtractTerrainFeatures(lat, fe.dem),
               ExtractWeatherFeatures(lat, lon, fe.config, resp), lat, lon, date)

\* index of the first call of a loop that raised, 0 when none did
FirstFail(outs) ==
    LET bad == {i \in 1..Len(outs) : outs[i].exc # "none"}
    IN  IF bad = {} THEN 0 ELSE CHOOSE i \in bad : \A j \in bad : i <= j

\* requests made by the calls 1..n of a loop
RequestsUpTo(outs, n) == SumSeq([i \in 1..n |-> outs[i].requests])

-----------------------------------------------------------------------------
(* AlertClassifier: the tiering inside RiskPredictor.predict               *)
(* ml_forecast.py:312-325                                                  *)

\* np.clip(x, lo, hi)
\* faulty variant: a clip without its upper bound
ClipBelowOnly(x, lo, hi) == IF x < lo THEN lo ELSE x

Clip(x, lo, hi) == IF x < lo THEN lo ELSE IF x > hi THEN hi ELSE x

\* faulty variant: strict comparisons at the breakpoints
AlertLevelStrict(score) ==
    IF score > 700 THEN "ROSSO"
    ELSE IF score > 500 THEN "ARANCIONE"
    ELSE IF score > 300 THEN "GIALLO"
    ELSE "VERDE"

\* the if/elif chain of ml_forecast.py:318-325, score in tenths
AlertLevel(score) ==
    IF score >= 700 THEN "ROSSO"
    ELSE IF score >= 500 THEN "ARANCIONE"
    ELSE IF score >= 300 THEN "GIALLO"
    ELSE "VERDE"


-----------------------------------------------------------------------------
(* RiskPredictor: ml_forecast.py:191-353                                   *)
(* self.model is [kind, f, n]: kind "None", "unfitted" (an XGBRegressor    *)
(* whose fit has not completed) or "fitted"; f names the fitted function   *)
(* and n the number of columns it was fitted on. self.scaler is            *)
(* [fitted, s, names]: s the fitted shift, names the columns seen by fit.  *)
(* A frame is [columns, rows].                                             *)

NoneModel == [kind |-> "None", f |-> 0, n |-> 0]
UnfittedModel == [kind |-> "unfitted", f |-> 0, n |-> 0]

\* StandardScaler()   (ml_forecast.py:198)
NewScaler == [fitted |-> FALSE, s |-> 0, names |-> << >>]

NoFrame == [columns |-> << >>, rows |-> << >>]

\* datetime.now()
Now == [kind |-> "datetime", ord |-> 20398]

\* the bounds used when self.config has none (ml_forecast.py:222)
DefaultBounds == [lat_min |-> 454, lat_max |-> 466, lon_min |-> 85, lon_max |-> 114]

\* no FeatureEngineering object: self.feature_engineer = None
NoEngineer ==
    [present |-> FALSE, config |-> [k \in {} |-> 0],
     dem |-> [configured |-> FALSE, exists |-> FALSE, opens |-> FALSE, crs |-> "none",
              overlap |-> FALSE, reads |-> FALSE, band |-> << >>]]

\* no artifact at the model path
NoFile ==
    [exists |-> FALSE, has |-> {}, model |-> NoneModel, scaler |-> NewScaler,
     features |-> << >>]

NumModels == 3          \* distinct fitted functions the model tells apart
NumShifts == 3          \* distinct fitted scaler states the model tells apart

\* raw outputs a regressor can give, in tenths: below 0, inside, above 100
RawOutputs == << 0, 299, 300, -500, 499, 1001, 500, -1, 699, 5000, 700, 1000, 650 >>

\* .reindex(columns=names) of one row: a column the row lacks is NaN
Reindex(vec, names) ==
    [i \in 1..Len(names) |-> IF names[i] \in DOMAIN vec THEN vec[names[i]] ELSE NaN]

\* self.scaler.transform(features_df): the exception it raises
ScalerTransformFails(sc, columns) ==
    IF ~sc.fitted THEN "NotFittedError"
    ELSE IF sc.names # columns THEN "ValueError"
    ELSE "none"

\* one row through the fitted scaler; NaN stays NaN
ScalerTransform(sc, row) ==
    [i \in 1..Len(row) |-> IF row[i] = NaN THEN NaN ELSE row[i] - sc.s]

\* self.model.predict(features_scaled): the exception it raises
ModelPredictFails(m, ncols) ==
    IF m.kind # "fitted" THEN "NotFittedError"
    ELSE IF m.n # ncols THEN "ValueError"
    ELSE "none"

\* the regressor's output for one scaled row: a fixed function of the fitted
\* model and the row
RawScore(m, row) ==
    RawOutputs[((m.f * 5 + SumSeq(row)) % Len(RawOutputs)) + 1]

\* ml_forecast.py:307-310 for rows already built: reindex, scale, infer
ScoreRows(m, sc, names, vecs) ==
    LET fail(e) == [exc |-> e, raw |-> << >>]
    IN  \* pd.concat(all_features, ...) of an empty list
        IF Len(vecs) = 0 THEN fail("ValueError")
        ELSE IF ScalerTransformFails(sc, names) # "none"
             THEN fail(ScalerTransformFails(sc, names))
        ELSE IF ModelPredictFails(m, Len(names)) # "none"
             THEN fail(ModelPredictFails(m, Len(names)))
        ELSE [exc |-> "none",
              raw |-> [i \in 1..Len(vecs) |->
                          RawScore(m, ScalerTransform(sc, Reindex(vecs[i], names)))]]

\* one record of the result frame, ml_forecast.py:316-332
PredictionRecord(loc, raw) ==
    LET score == Clip(raw, 0, 1000)
    IN  [latitude |-> loc.lat, longitude |-> loc.lon,
         risk_score |-> score, alert_level |-> AlertLevel(score)]

\* the guard of ml_forecast.py:300: `not self.model`
ModelMissing(m) == m.kind = "None"

\* the record of the call that just ended: its name, the exception that left
\* it, the calls and requests it made, what it returned
Called(name, e, vectors, requests) ==
    /\ op = "idle"
    /\ op' = name
    /\ exc' = e
    /\ n_vectors' = vectors
    /\ n_requests' = requests
    /\ pre' = << model, scaler, feature_names_ >>

NoEvents == [has_date |-> TRUE, has_intensity |-> TRUE, rows |-> << >>]

\* nothing was saved by save_model, or the saved artifact was replaced
NothingSaved ==
    [valid |-> FALSE, model |-> NoneModel, scaler |-> NewScaler,
     features |-> << >>, scores |-> [exc |-> "none", raw |-> << >>]]

\* the result slots a call does not fill
NoRecords == predictions' = << >> /\ raw_scores' = << >>
NoQuery == [locations |-> << >>, resps |-> << >>]
NoPredictions == NoRecords /\ q_in' = NoQuery
NoTrainingSet == X_out' = NoFrame /\ y_out' = << >> /\ events_in' = NoEvents

\* faulty variant: the scaler is refit on the rows to predict
ScalerAfterFitTransform(sc) == [sc EXCEPT !.fitted = TRUE, !.s = (sc.s + 1) % NumShifts]

\* the scaler after self.scaler.transform: transform fits nothing
ScalerAfterTransform(sc) == sc

\* predict (ml_forecast.py:298-334) where outs[i] is the outcome of the
\* create_feature_vector call of the i-th point
PredictRows(locations, outs) ==
    LET n     == Len(locations)
        ff    == FirstFail(outs)
        score == ScoreRows(model, scaler, feature_names_, [i \in 1..n |-> outs[i].vec])
    IN  /\ op = "idle"
        /\ UNCHANGED << model, feature_names_, feature_engineer, config, file,
                        ever_ready, saved >>
        \* self.scaler.transform(X_predict_df)   (line 309)
        /\ scaler' = IF ~ModelMissing(model) /\ ff = 0 /\ n # 0
                     THEN ScalerAfterTransform(scaler) ELSE scaler
        /\ NoTrainingSet
        /\ IF ModelMissing(model)
           THEN Called("predict", "RuntimeError", 0, 0) /\ NoRecords
           ELSE IF ff # 0
           THEN Called("predict", outs[ff].exc, ff, RequestsUpTo(outs, ff)) /\ NoRecords
           ELSE IF score.exc # "none"
           THEN Called("predict", score.exc, n, RequestsUpTo(outs, n)) /\ NoRecords
           ELSE /\ Called("predict", "none", n, RequestsUpTo(outs, n))
                /\ raw_scores' = score.raw
                /\ predictions' = [i \in 1..n |-> PredictionRecord(locations[i], score.raw[i])]

\* predict(locations); resps[i] is what the weather provider answers to the
\* request of the i-th point
Predict(locations, resps) ==
    PredictRows(locations,
        [i \in 1..Len(locations) |->
            IF feature_engineer.present
            THEN CreateFeatureVector(feature_engineer, locations[i].lat,
                                     locations[i].lon, Now, resps[i])
            ELSE [exc |-> "AttributeError", vec |-> NoVector, columns |-> << >>,
                  requests |-> 0]])
    /\ q_in' = [locations |-> locations, resps |-> resps]

\* ---- prepare_training_data   (ml_forecast.py:202-238)
\* historical_events is [has_date, has_intensity, rows]: whether the frame has
\* the columns 'data_evento' and 'intensita', and its rows
\* [lat, lon, data_evento [kind, ord], intensita]; kind is "iso", "malformed",
\* "None" or "NaN"

DrawSteps == 2          \* values a np.random.uniform draw takes in the model
MaxPastWindow == 3650   \* ml_forecast.py:227

\* pd.to_datetime(event.get('data_evento', datetime.now()))   (line 209)
EventDate(events, row) ==
    IF ~events.has_date THEN [exc |-> "none", date |-> Now]
    ELSE CASE row.data_evento.kind = "iso" ->
                [exc |-> "none", date |-> [kind |-> "datetime", ord |-> row.data_evento.ord]]
           [] row.data_evento.kind = "malformed" ->
                [exc |-> "ValueError", date |-> Now]
           [] row.data_evento.kind = "None" ->
                [exc |-> "none", date |-> [kind |-> "None", ord |-> 0]]
           [] OTHER ->
                [exc |-> "none", date |-> [kind |-> "NaT", ord |-> 0]]

\* faulty variant: every event is labelled with the default
EventLabelDefault(events, row) == 50

\* event.get('intensita', 50)   (line 212)
EventLabel(events, row) == IF events.has_intensity THEN row.intensita ELSE 50

\* one create_feature_vector call of a loop and its outcome v
Sampled(v) ==
    [exc |-> v.exc, vec |-> v.vec, columns |-> v.columns, requests |-> v.requests,
     calls |-> 1]

\* one pass of the loop of lines 207-212
PositiveSample(fe, events, row, resp) ==
    LET d == EventDate(events, row)
    IN  IF d.exc # "none"
        THEN [exc |-> d.exc, vec |-> NoVector, columns |-> << >>, requests |-> 0,
              calls |-> 0]
        ELSE IF ~fe.present
             THEN [exc |-> "AttributeError", vec |-> NoVector, columns |-> << >>,
                   requests |-> 0, calls |-> 0]
        ELSE Sampled(CreateFeatureVector(fe, row.lat, row.lon, d.date, resp))

\* the bounds of lines 221-222
SamplingBounds(cfg) ==
    IF "lombardy_bounds" \in DOMAIN cfg THEN cfg["lombardy_bounds"] ELSE DefaultBounds

\* np.random.uniform(lo, hi) for the draw u of 0..DrawSteps-1
Uniform(lo, hi, u) == lo + ((hi - lo) * u) \div DrawSteps

\* one pass of the loop of lines 224-228; draw is [u_lat, u_lon, days]
NegativeSample(fe, cfg, draw, resp) ==
    LET b    == SamplingBounds(cfg)
        lat  == Uniform(b.lat_min, b.lat_max, draw.u_lat)
        lon  == Uniform(b.lon_min, b.lon_max, draw.u_lon)
        date == [kind |-> "datetime", ord |-> Now.ord - draw.days]
    IN  IF ~fe.present
        THEN [exc |-> "AttributeError", vec |-> NoVector, columns |-> << >>,
              requests |-> 0, calls |-> 0]
        ELSE Sampled(CreateFeatureVector(fe, lat, lon, date, resp))

\* create_feature_vector calls made by the passes 1..n of a loop
CallsUpTo(outs, n) == SumSeq([i \in 1..n |-> outs[i].calls])

\* cols followed by the names of more that cols lacks, in their order
RECURSIVE AppendNew(_, _)
AppendNew(cols, more) ==
    IF more = << >> THEN cols
    ELSE AppendNew(IF \E i \in 1..Len(cols) : cols[i] = Head(more)
                   THEN cols ELSE Append(cols, Head(more)),
                   Tail(more))

\* the columns of pd.concat(frames, ignore_index=True): the union of the
\* frames' columns in order of first appearance
RECURSIVE ConcatColumns(_)
ConcatColumns(frames) ==
    IF frames = << >> THEN << >>
    ELSE AppendNew(Head(frames), ConcatColumns(Tail(frames)))

\* lines 214-238 given the outcomes pos and neg of the passes of the two
\* loops: the exception that leaves the call, the frame and the labels
\* returned, and the calls and requests made
AssembleSamples(events, pos, neg) ==
    LET K    == Len(events.rows)
        fp   == FirstFail(pos)
        fn   == FirstFail(neg)
        \* X = pd.concat(X_list, ...); y = pd.Series(y_list)   (lines 214-215)
        X    == [i \in 1..K |-> pos[i].vec]
        y    == [i \in 1..K |-> EventLabel(events, events.rows[i])]
        \* X_negative, y_negative   (lines 230-231)
        Xneg == [j \in 1..K |-> neg[j].vec]
        yneg == [j \in 1..K |-> 0]
        raise(e, v, r) == [exc |-> e, X |-> NoFrame, y |-> << >>, vectors |-> v, requests |-> r]
    IN  IF fp # 0
        THEN raise(pos[fp].exc, CallsUpTo(pos, fp), RequestsUpTo(pos, fp))
        \* pd.concat of an empty list   (line 214)
        ELSE IF K = 0 THEN raise("ValueError", 0, 0)
        ELSE IF fn # 0
        THEN raise(neg[fn].exc, K + CallsUpTo(neg, fn),
                   RequestsUpTo(pos, K) + RequestsUpTo(neg, fn))
        \* X_final, y_final   (lines 233-234)
        ELSE [exc |-> "none",
              X |-> [columns |-> ConcatColumns(<< ConcatColumns([i \in 1..K |-> pos[i].columns]),
                                                   ConcatColumns([j \in 1..K |-> neg[j].columns]) >>),
                     rows |-> X \o Xneg],
              y |-> y \o yneg,
              vectors |-> 2 * K,
              requests |-> RequestsUpTo(pos, K) + RequestsUpTo(neg, K)]

\* prepare_training_data(historical_events) on a predictor with feature
\* engineer fe and configuration cfg; draws[j] are the random draws of the j-th
\* negative, resps the provider's answers to the 2K requests in order
PrepareResult(fe, cfg, events, draws, resps) ==
    AssembleSamples(events,
        [i \in 1..Len(events.rows) |->
            PositiveSample(fe, events, events.rows[i], resps[i])],
        [j \in 1..Len(events.rows) |->
            NegativeSample(fe, cfg, draws[j], resps[Len(events.rows) + j])])

\* the effect of a prepare_training_data call whose outcome is r
Prepared(events, r) ==
    /\ op = "idle"
    /\ Called("prepare_training_data", r.exc, r.vectors, r.requests)
    /\ events_in' = events
    /\ X_out' = r.X
    /\ y_out' = r.y
    /\ NoPredictions
    \* self.feature_names_ = X_final.columns.tolist()   (line 236)
    /\ feature_names_' = IF r.exc = "none" THEN r.X.columns ELSE feature_names_
    /\ UNCHANGED << model, scaler, feature_engineer, config, file, ever_ready, saved >>

PrepareTrainingData(events, draws, resps) ==
    Prepared(events, PrepareResult(feature_engineer, config, events, draws, resps))

\* ---- train   (ml_forecast.py:240-284)

\* train_test_split(X, y, test_size=0.2, random_state=seed) raises
SplitFails(X, y) ==
    LET n == Len(X.rows)
    IN  Len(y) # n \/ n = 0 \/ n - ((n + 4) \div 5) = 0

\* the rows of the test partition: ceil(0.2 n) rows picked by the seed
TestRows(n, seed) == {((seed + k) % n) + 1 : k \in 0..(((n + 4) \div 5) - 1)}

TrainIndices(n, seed) ==
    LET keep == {i \in 1..n : i \notin TestRows(n, seed)}
    IN  SelectSeq([i \in 1..n |-> i], LAMBDA i : i \in keep)

\* self.scaler.fit_transform(X_train): the scaler after the fit
ScalerFit(X, idx) ==
    [fitted |-> TRUE,
     s      |-> SumSeq([k \in 1..Len(idx) |-> X.rows[idx[k]].latitude]) % NumShifts,
     names  |-> X.columns]

\* self.model.fit(X_train_scaled, y_train) rejects a NaN label
FitFails(y, idx) == \E k \in 1..Len(idx) : y[idx[k]] = NaN

\* the regressor fitted on the train partition with the given seed
ModelFit(X, y, idx, seed) ==
    [kind |-> "fitted",
     f    |-> ((SumSeq([k \in 1..Len(idx) |-> y[idx[k]]]) + seed) % NumModels) + 1,
     n    |-> Len(X.columns)]

\* train(X, y)
Train(X, y) ==
    LET seed == ConfigGet(config, "random_state", 42)
        idx  == TrainIndices(Len(X.rows), seed)
    IN  /\ op = "idle"
        /\ UNCHANGED << feature_engineer, config, file, saved >>
        /\ NoPredictions /\ NoTrainingSet
        \* self.feature_names_ = X.columns.tolist()   (line 244)
        /\ feature_names_' = X.columns
        /\ IF SplitFails(X, y)
           THEN /\ Called("train", "ValueError", 0, 0)
                /\ UNCHANGED << model, scaler, ever_ready >>
           ELSE IF FitFails(y, idx)
           THEN /\ Called("train", "ValueError", 0, 0)
                /\ scaler' = ScalerFit(X, idx)
                /\ model' = UnfittedModel
                /\ UNCHANGED ever_ready
           ELSE /\ Called("train", "none", 0, 0)
                /\ scaler' = ScalerFit(X, idx)
                /\ model' = ModelFit(X, y, idx, seed)
                /\ ever_ready' = TRUE

\* ---- save_model / load_model   (ml_forecast.py:336-353)

\* the rows of the fixed query points on which two predictors are compared
QueryVectors ==
    << [elevation_mean |-> 200, elevation_std |-> 150, slope_mean |-> 5, roughness |-> 20,
        precip_1d_past |-> 5, precip_3d_past |-> 15, precip_7d_past |-> 30,
        precip_3d_forecast |-> 10, month |-> 11, day_of_year |-> 310,
        latitude |-> 454, longitude |-> 95],
       [elevation_mean |-> 1250, elevation_std |-> 150, slope_mean |-> 19, roughness |-> 20,
        precip_1d_past |-> 1, precip_3d_past |-> 3, precip_7d_past |-> 4,
        precip_3d_forecast |-> 2, month |-> 11, day_of_year |-> 310,
        latitude |-> 461, longitude |-> 98] >>

\* faulty variant: the feature schema is stored empty
ModelDataNoSchema(m, sc, names) ==
    [exists |-> TRUE, has |-> {"model", "scaler", "features"},
     model |-> m, scaler |-> sc, features |-> << >>]

\* model_data of save_model (lines 338-342), as stored by joblib.dump
ModelData(m, sc, names) ==
    [exists |-> TRUE, has |-> {"model", "scaler", "features"},
     model |-> m, scaler |-> sc, features |-> names]

\* save_model(filepath)
SaveModel ==
    /\ op = "idle"
    /\ file' = ModelData(model, scaler, feature_names_)
    /\ saved' = [valid |-> TRUE, model |-> model, scaler |-> scaler,
                 features |-> feature_names_,
                 scores |-> ScoreRows(model, scaler, feature_names_, QueryVectors)]
    /\ Called("save_model", "none", 0, 0)
    /\ NoPredictions /\ NoTrainingSet
    /\ UNCHANGED << model, scaler, feature_names_, feature_engineer, config, ever_ready >>

\* load_model(filepath): the three assignments of lines 350-352 run in order,
\* each one a KeyError when the stored dict lacks its key
LoadModel ==
    /\ op = "idle"
    /\ UNCHANGED << feature_engineer, config, file, saved >>
    /\ NoPredictions /\ NoTrainingSet
    /\ IF ~file.exists
       THEN /\ Called("load_model", "FileNotFoundError", 0, 0)
            /\ UNCHANGED << model, scaler, feature_names_, ever_ready >>
       ELSE IF "model" \notin file.has
       THEN /\ Called("load_model", "KeyError", 0, 0)
            /\ UNCHANGED << model, scaler, feature_names_, ever_ready >>
       ELSE IF "scaler" \notin file.has
       THEN /\ Called("load_model", "KeyError", 0, 0)
            /\ model' = file.model
            /\ UNCHANGED << scaler, feature_names_, ever_ready >>
       ELSE IF "features" \notin file.has
       THEN /\ Called("load_model", "KeyError", 0, 0)
            /\ model' = file.model
            /\ scaler' = file.scaler
            /\ UNCHANGED << feature_names_, ever_ready >>
       ELSE /\ Called("load_model", "none", 0, 0)
            /\ model' = file.model
            /\ scaler' = file.scaler
            /\ feature_names_' = file.features
            /\ ever_ready' = TRUE

\* an artifact written by something other than this predictor's save_model:
\* what joblib.load (line 349) then finds at the path
StoreArtifact(blob) ==
    /\ op = "idle"
    /\ file' = blob
    /\ saved' = NothingSaved
    /\ UNCHANGED << model, scaler, feature_names_, feature_engineer, config, ever_ready,
                    op, exc, predictions, raw_scores, q_in, X_out, y_out, events_in,
                    pre, n_requests, n_vectors >>

\* predictor.feature_engineer = feature_engineer
\* (ml_forecast.py:373-374, pipeline.py:113-117)
SetFeatureEngineer(fe) ==
    /\ op = "idle"
    /\ feature_engineer' = fe
    /\ UNCHANGED << model, scaler, feature_names_, config, file, ever_ready, saved,
                    op, exc, predictions, raw_scores, q_in, X_out, y_out, events_in,
                    pre, n_requests, n_vectors >>

\* the caller goes on after a call: its result is dropped before the next call
\* (the sequence of calls of ml_forecast.py:383-408)
Return ==
    /\ op # "idle"
    /\ op' = "idle" /\ exc' = "none"
    /\ n_vectors' = 0 /\ n_requests' = 0
    /\ pre' = << NoneModel, NewScaler, << >> >>
    /\ NoPredictions /\ NoTrainingSet
    /\ UNCHANGED << model, scaler, feature_names_, feature_engineer, config, file,
                    ever_ready, saved >>

-----------------------------------------------------------------------------
(* PredictionPostProcessor: post_processor.py:13-102                       *)
(* The reference localities are the entries of 'capoluoghi_coords' in      *)
(* insertion order, each [name, lat, lon, prov]: name -> (lat, lon, prov). *)
(* A batch is [has_score, has_level, rows]: whether the frame has the      *)
(* columns 'risk_score' and 'alert_level', and its rows [lat, lon,         *)
(* risk_score, alert_level]; the geometry of a row is Point(lon, lat).     *)

\* a processor on which __init__ found no localities: self.kdtree = None
NoProcessor ==
    [config |-> [k \in {} |-> 0], kdtree |-> FALSE,
     capoluoghi_nomi |-> << >>, capoluoghi_coords |-> << >>, capoluoghi_prov |-> << >>]

NoBatch == [has_score |-> TRUE, has_level |-> TRUE, rows |-> << >>]

\* faulty variant: the coordinates are kept as (lat, lon)
ProcessorInitNoSwap(cfg) ==
    LET capoluoghi_raw == ConfigGet(cfg, "capoluoghi_coords", << >>)
    IN  IF capoluoghi_raw # << >>
        THEN [config |-> cfg, kdtree |-> TRUE,
              capoluoghi_nomi   |-> [i \in 1..Len(capoluoghi_raw) |-> capoluoghi_raw[i].name],
              capoluoghi_coords |-> [i \in 1..Len(capoluoghi_raw) |->
                                       [x |-> capoluoghi_raw[i].lat,
                                        y |-> capoluoghi_raw[i].lon]],
              capoluoghi_prov   |-> [i \in 1..Len(capoluoghi_raw) |-> capoluoghi_raw[i].prov]]
        ELSE [NoProcessor EXCEPT !.config = cfg]

\* PredictionPostProcessor.__init__ on the 'post_processing' section cfg
\* (post_processor.py:14-30)
ProcessorInit(cfg) ==
    LET capoluoghi_raw == ConfigGet(cfg, "capoluoghi_coords", << >>)
    IN  IF capoluoghi_raw # << >>
        THEN [config |-> cfg, kdtree |-> TRUE,
              capoluoghi_nomi   |-> [i \in 1..Len(capoluoghi_raw) |-> capoluoghi_raw[i].name],
              \* (lat, lon) becomes (x, y) = (lon, lat)
              capoluoghi_coords |-> [i \in 1..Len(capoluoghi_raw) |->
                                       [x |-> capoluoghi_raw[i].lon,
                                        y |-> capoluoghi_raw[i].lat]],
              capoluoghi_prov   |-> [i \in 1..Len(capoluoghi_raw) |-> capoluoghi_raw[i].prov]]
        ELSE [NoProcessor EXCEPT !.config = cfg]

\* squared Euclidean distance between a reference point and (x, y)
Dist2(c, x, y) == (c.x - x) * (c.x - x) + (c.y - y) * (c.y - y)

\* the indices self.kdtree.query(point, k=1) may return: those of the
\* reference points at the least distance
NearestIndices(coords, x, y) ==
    {i \in 1..Len(coords) :
        \A j \in 1..Len(coords) : Dist2(coords[i], x, y) <= Dist2(coords[j], x, y)}

\* the index arrays kdtree.query may return for the rows of a batch
QueryResults(proc, batch) ==
    IF ~proc.kdtree \/ \E i \in 1..Len(batch.rows) :
                          batch.rows[i].lat = NaN \/ batch.rows[i].lon = NaN
    THEN {[i \in 1..Len(batch.rows) |-> 0]}
    ELSE {pick \in [1..Len(batch.rows) -> 1..Len(proc.capoluoghi_coords)] :
             \A i \in 1..Len(batch.rows) :
                pick[i] \in NearestIndices(proc.capoluoghi_coords,
                                           batch.rows[i].lon, batch.rows[i].lat)}

\* faulty variant: without a tree the two columns are left empty
EnrichLocationsBlank(proc, batch, indices) ==
    LET n == Len(batch.rows)
    IN  IF ~proc.kdtree \/ n = 0
        THEN [exc |-> "none", comune |-> [i \in 1..n |-> ""],
              provincia |-> [i \in 1..n |-> ""]]
        ELSE IF \E i \in 1..n : batch.rows[i].lat = NaN \/ batch.rows[i].lon = NaN
        THEN [exc |-> "ValueError", comune |-> << >>, provincia |-> << >>]
        ELSE [exc |-> "none",
              comune    |-> [i \in 1..n |-> proc.capoluoghi_nomi[indices[i]]],
              provincia |-> [i \in 1..n |-> proc.capoluoghi_prov[indices[i]]]]

\* _enrich_locations (post_processor.py:32-47) where indices is what the query
\* returned: the exception raised and the two columns written
EnrichLocations(proc, batch, indices) ==
    LET n == Len(batch.rows)
    IN  \* if not self.kdtree or gdf.empty
        IF ~proc.kdtree \/ n = 0
        THEN [exc |-> "none", comune |-> [i \in 1..n |-> "Unknown"],
              provincia |-> [i \in 1..n |-> "N/A"]]
        \* self.kdtree.query rejects a coordinate that is not finite
        ELSE IF \E i \in 1..n : batch.rows[i].lat = NaN \/ batch.rows[i].lon = NaN
        THEN [exc |-> "ValueError", comune |-> << >>, provincia |-> << >>]
        ELSE [exc |-> "none",
              comune    |-> [i \in 1..n |-> proc.capoluoghi_nomi[indices[i]]],
              provincia |-> [i \in 1..n |-> proc.capoluoghi_prov[indices[i]]]]

\* np.select over the four conditions of post_processor.py:62-70
RiskLevel(score) ==
    IF score = NaN THEN "R1"
    ELSE IF score >= 700 THEN "R4"
    ELSE IF score >= 500 THEN "R3"
    ELSE IF score >= 300 THEN "R2"
    ELSE "R1"

\* a configured 'color_map' is [kind, map]: kind "dict" with its entries, or
\* the kind of another JSON value
\* the default of self.config.get('color_map', ...)   (post_processor.py:73-78)
DefaultColorMap ==
    [kind |-> "dict",
     map  |-> [ROSSO |-> "#ff4757", ARANCIONE |-> "#ff9f43", GIALLO |-> "#ffd32c",
               VERDE |-> "#26de81"]]

\* gdf['alert_level'].map(color_map).fillna('#26de81') for one level
AlertColor(color_map, level) ==
    IF level \in DOMAIN color_map.map THEN color_map.map[level] ELSE "#26de81"

\* faulty variant: the product is rounded but not clipped
PrecipitationMmUnclipped(score) ==
    IF score = NaN THEN NaN ELSE (8 * score + 5) \div 10

\* np.clip(risk_score * 0.8, 0, 100).round(1), in tenths
PrecipitationMm(score) ==
    IF score = NaN THEN NaN ELSE Clip((8 * score + 5) \div 10, 0, 1000)

\* one record of the frame returned
EnrichedRecord(row, comune, provincia, risk_level, alert_color, mm, stamped) ==
    [latitude |-> row.lat, longitude |-> row.lon,
     risk_score |-> row.risk_score, alert_level |-> row.alert_level,
     comune |-> comune, provincia |-> provincia,
     risk_level |-> risk_level, alert_color |-> alert_color,
     precipitation_mm |-> mm, timestamp |-> stamped]

\* the body of the try block (post_processor.py:58-93) once the localities
\* loc were looked up: the exception it ends with and the frame it returned
TryEnrich(proc, batch, loc) ==
    LET n == Len(batch.rows)
        color_map == ConfigGet(proc.config, "color_map", DefaultColorMap)
        raise(e) == [exc |-> e, records |-> << >>]
    IN  IF loc.exc # "none" THEN raise(loc.exc)
        \* gdf['risk_score'] >= 70
        ELSE IF ~batch.has_score THEN raise("KeyError")
        \* gdf['alert_level'].map(color_map)
        ELSE IF ~batch.has_level THEN raise("KeyError")
        \* Series.map of a value that is neither a mapping nor callable
        ELSE IF color_map.kind # "dict" THEN raise("TypeError")
        ELSE [exc |-> "none",
              records |-> [i \in 1..n |->
                  EnrichedRecord(batch.rows[i], loc.comune[i], loc.provincia[i],
                                 RiskLevel(batch.rows[i].risk_score),
                                 AlertColor(color_map, batch.rows[i].alert_level),
                                 PrecipitationMm(batch.rows[i].risk_score), TRUE)]]

\* faulty variant: only a ValueError is handled
EnrichCaughtValueOnly == {"ValueError"}

\* the exception classes of the except clause of post_processor.py:95
EnrichCaught == {"Exception"}

\* the except block of post_processor.py:95-102: the copy with minimal fields
EnrichExcept(batch, body) ==
    IF body.exc = "none"
    THEN [exc |-> "none", handled |-> FALSE, records |-> body.records]
    ELSE IF Catches(EnrichCaught, body.exc)
    THEN [exc |-> "none", handled |-> TRUE,
          records |-> [i \in 1..Len(batch.rows) |->
              EnrichedRecord(batch.rows[i], "Unknown", "N/A", "R1", "#26de81", NaN, FALSE)]]
    ELSE [exc |-> body.exc, handled |-> FALSE, records |-> << >>]

\* enrich_predictions(predictions_gdf) (post_processor.py:49-102) where
\* indices is what the spatial query returns
EnrichPredictions(proc, batch, indices) ==
    \* if predictions_gdf.empty: return predictions_gdf
    IF batch.rows = << >>
    THEN [exc |-> "none", handled |-> FALSE, records |-> << >>]
    ELSE EnrichExcept(batch, TryEnrich(proc, batch, EnrichLocations(proc, batch, indices)))

-----------------------------------------------------------------------------
(* Inputs: provider responses, raster sources, points                      *)

Num(v) == [k |-> "num", n |-> v]
Null == [k |-> "null", n |-> 0]
NumStr(v) == [k |-> "numstr", n |-> v]
BadStr == [k |-> "badstr", n |-> 0]
ListItem == [k |-> "list", n |-> 0]

\* a well-formed response: {"daily": {"precipitation_sum": days, ...}, ...}
OkResponse(days) ==
    [stage |-> "ok", data |-> "dict", data_has_daily |-> TRUE,
     daily |-> "dict", daily_has_precip |-> TRUE, precip |-> "list", days |-> days]

\* the request failed in transport, or the body is not JSON
FailedResponse(stage) == [OkResponse(<< >>) EXCEPT !.stage = stage]

TransportFailures == {FailedResponse(st) : st \in {"ConnectionError", "Timeout", "HTTPError"}}

\* responses whose shape is not the expected one
MalformedResponses ==
    {FailedResponse("NotJSON")}
    \cup {[OkResponse(<< >>) EXCEPT !.data = d, !.data_has_daily = FALSE] :
             d \in {"null", "number", "list", "string", "dict"}}
    \cup {[OkResponse(<< >>) EXCEPT !.data = d] : d \in {"list", "string"}}
    \cup {[OkResponse(<< >>) EXCEPT !.daily = d, !.daily_has_precip = FALSE] :
             d \in {"null", "number", "list", "string", "dict"}}
    \cup {[OkResponse(<< >>) EXCEPT !.daily = d] : d \in {"list", "string"}}
    \cup {[OkResponse(<< >>) EXCEPT !.precip = q] : q \in {"null", "number"}}
    \cup {[OkResponse(items) EXCEPT !.precip = "string"] :
             items \in {<< BadStr, BadStr >>, << NumStr(1), NumStr(2), NumStr(3) >>}}
    \cup {[OkResponse(<< BadStr >>) EXCEPT !.precip = "dict"]}
    \cup {OkResponse(items) :
             items \in {<< Num(1), BadStr, Num(2) >>, << Num(1), ListItem >>,
                        << ListItem, BadStr >>, << BadStr, ListItem >>,
                        << Num(1), Num(2), Num(1), BadStr >>,
                        << Num(1), Num(2), Num(1), ListItem >>}}

DayValues == {Num(1), Num(2), Null}

\* ten days as the provider returns them for the default windows 7 + 3
TenDays == << Num(1), Num(2), Null, Num(1), Num(2), Num(1), Num(2), Num(1), Null, Num(2) >>

\* well-formed responses: every list of up to MaxDays values, and longer ones
WellFormedResponses ==
    {OkResponse(d) : d \in UNION {[1..n -> DayValues] : n \in 0..MaxDays}}
    \cup {OkResponse(SubSeq(TenDays, 1, n)) : n \in 6..10}
    \cup {OkResponse(<< NumStr(1), Num(2), NumStr(2), Null, Num(1) >>)}

Responses == TransportFailures \cup MalformedResponses \cup WellFormedResponses

\* the 'feature_engineering' section of the configuration
WeatherConfigs ==
    {[k \in {} |-> 0]}
    \cup {[weather_past_days |-> p] : p \in 0..MaxPastDays}
    \cup {[weather_past_days |-> p, weather_forecast_days |-> f] :
             p \in 0..MaxPastDays, f \in 0..MaxForecastDays}

\* points, in tenths of a degree: inside, on the edges of, and outside the
\* valid ranges
Points ==
    {[lat |-> 454, lon |-> 95], [lat |-> 461, lon |-> 98],
     [lat |-> -900, lon |-> -1800], [lat |-> 900, lon |-> 1800],
     [lat |-> -901, lon |-> 95], [lat |-> 901, lon |-> 95],
     [lat |-> 454, lon |-> -1801], [lat |-> 454, lon |-> 1801],
     [lat |-> 955, lon |-> 1900]}


MaxCells == 12          \* most valid cells of an enumerated raster window
MaxNoData == 2          \* most no-data cells of an enumerated raster window

\* a raster window of nv valid cells followed by nn no-data cells
DemBand(nv, nn) ==
    [i \in 1..(nv + nn) |-> IF i <= nv THEN 100 + 50 * (i % 4) ELSE NoDataValue]

GoodDem(band) ==
    [configured |-> TRUE, exists |-> TRUE, opens |-> TRUE, crs |-> "EPSG:4326",
     overlap |-> TRUE, reads |-> TRUE, band |-> band]

\* raster sources: not configured, missing, unreadable, corrupt, without a
\* CRS, in another CRS, not under the buffer, and readable windows of every
\* size
DemSources ==
    {[GoodDem(<< >>) EXCEPT !.configured = FALSE, !.exists = FALSE],
     [GoodDem(<< >>) EXCEPT !.configured = FALSE],
     [GoodDem(<< >>) EXCEPT !.exists = FALSE],
     [GoodDem(<< >>) EXCEPT !.opens = FALSE],
     [GoodDem(DemBand(MaxCells, 0)) EXCEPT !.reads = FALSE],
     [GoodDem(DemBand(MaxCells, 0)) EXCEPT !.crs = "none"],
     [GoodDem(DemBand(MaxCells, 0)) EXCEPT !.overlap = FALSE]}
    \cup {[GoodDem(DemBand(nv, nn)) EXCEPT !.crs = c] :
             nv \in 0..MaxCells, nn \in 0..MaxNoData, c \in {"EPSG:4326", "EPSG:32632"}}

Latitudes == {p.lat : p \in Points}

ScoreBelow == 200       \* tenths below 0 the enumerated scores reach
ScoreAbove == 200       \* tenths above 100 the enumerated scores reach
Scores == (0 - ScoreBelow)..(1000 + ScoreAbove)

\* ---- inputs of the RiskPredictor calls

MaxEvents == 2          \* most historical events of one frame
MaxLocations == 2       \* most query points of one predict call
NumSeeds == 4           \* states of the random generator told apart

EmptyConfig == [k \in {} |-> 0]

\* the 'model' section of the configuration
PredictorConfigs ==
    {EmptyConfig,
     [random_state |-> 7],
     [lombardy_bounds |-> [lat_min |-> 450, lat_max |-> 456, lon_min |-> 90, lon_max |-> 96]]}

\* the configured min_risk_score_threshold, in tenths
MinRiskScore == 300

\* self.config = config.get('model', {})   (ml_forecast.py:195)
PredictorConfig(params) == ConfigGet(params, "model", EmptyConfig)

\* study areas a configuration names under prediction.lombardy_bounds
\* (pipeline.py:129): the default one and a smaller one
StudyAreas ==
    {DefaultBounds,
     [lat_min |-> 450, lat_max |-> 456, lon_min |-> 90, lon_max |-> 96]}

\* the 'ml_params' section of the configuration the pipeline is given
MlParams ==
    {[model |-> m,
      prediction |-> [lombardy_bounds |-> b, min_risk_score_threshold |-> MinRiskScore]] :
        m \in PredictorConfigs, b \in StudyAreas}

\* configurations that differ in 'random_state' only
SeedConfigs == {EmptyConfig, [random_state |-> 7]}

\* FeatureEngineering objects: defaults without a raster, and short windows
\* with a readable raster
Engineers ==
    {[present |-> TRUE, config |-> EmptyConfig, dem |-> NoEngineer.dem],
     [present |-> TRUE,
      config |-> [weather_past_days |-> 3, weather_forecast_days |-> 2],
      dem |-> GoodDem(DemBand(MaxCells, 1))]}

FewResponses ==
    {FailedResponse("Timeout"),
     OkResponse(<< Num(1), Num(2), Null, Num(1), Num(2) >>),
     [OkResponse(<< >>) EXCEPT !.daily = "null", !.daily_has_precip = FALSE]}

QueryPoints == {[lat |-> 461, lon |-> 98], [lat |-> 901, lon |-> 95]}

\* the i-th event of a well-formed frame
BaseRow(i) ==
    [lat |-> 456 + 3 * i, lon |-> 93 + 2 * i,
     data_evento |-> [kind |-> "iso", ord |-> 19500 + 97 * i],
     intensita |-> 40 + 45 * (i % 2)]

RowVariants(i) ==
    {BaseRow(i),
     [BaseRow(i) EXCEPT !.data_evento.kind = "malformed"],
     [BaseRow(i) EXCEPT !.data_evento.kind = "None"],
     [BaseRow(i) EXCEPT !.data_evento.kind = "NaN"],
     [BaseRow(i) EXCEPT !.intensita = NaN]}

\* frames of K events, one of them a variant
Frames ==
    {NoEvents}
    \cup UNION {UNION {{[has_date |-> hd, has_intensity |-> hi,
                         rows |-> [j \in 1..K |-> IF j = i THEN v ELSE BaseRow(j)]] :
                            v \in RowVariants(i), hd \in BOOLEAN, hi \in BOOLEAN} :
                       i \in 1..K} : K \in 1..MaxEvents}

\* the draws of np.random for the K negatives, from generator state seed
DrawsFor(K, seed) ==
    [j \in 1..K |->
        [u_lat |-> (seed + j) % DrawSteps,
         u_lon |-> ((seed \div DrawSteps) + j) % DrawSteps,
         days  |-> (seed * (MaxPastWindow - 1) + (j - 1) * 1217) % MaxPastWindow]]

\* the provider's answers to the 2K requests of one prepare_training_data
AnswersFor(K) ==
    {[c \in 1..(2 * K) |-> IF c = 2 * K THEN r2 ELSE r] :
        r \in FewResponses, r2 \in FewResponses}

PrepareCalls(frames, seeds) ==
    UNION {{[events |-> e, draws |-> DrawsFor(Len(e.rows), sd), resps |-> a] :
               sd \in seeds, a \in AnswersFor(Len(e.rows))} : e \in frames}

\* frames of well-formed events, and one whose first intensity is NaN
PlainFrames ==
    {NoEvents}
    \cup {[NoEvents EXCEPT !.rows = [j \in 1..K |-> BaseRow(j)]] : K \in 1..MaxEvents}
    \cup {[NoEvents EXCEPT !.rows = [j \in 1..MaxEvents |->
                IF j = 1 THEN [BaseRow(j) EXCEPT !.intensita = NaN] ELSE BaseRow(j)]]}

\* the same answer to every request of one prepare_training_data
SameAnswers(K) == {[c \in 1..(2 * K) |-> r] : r \in FewResponses}

PlainCalls ==
    UNION {{[events |-> e, draws |-> DrawsFor(Len(e.rows), 0), resps |-> a] :
               a \in SameAnswers(Len(e.rows))} : e \in PlainFrames}

\* ---- inputs of enrich_predictions

MaxRecords == 2         \* most records of one batch

\* the reference localities of a configuration, in tenths of a degree
Capoluoghi ==
    << [name |-> "Milano",  lat |-> 455, lon |-> 92, prov |-> "MI"],
       [name |-> "Sondrio", lat |-> 462, lon |-> 99, prov |-> "SO"],
       [name |-> "Bergamo", lat |-> 457, lon |-> 96, prov |-> "BG"] >>

\* 'post_processing' sections: without localities, with an empty dict, with
\* one and with three; without a color map, with one of their own, with a
\* number in its place
ProcessorConfigs ==
    {EmptyConfig, [color_map |-> [kind |-> "number", map |-> EmptyConfig]]}
    \cup {[capoluoghi_coords |-> SubSeq(Capoluoghi, 1, n)] : n \in {0, 1, 3}}
    \cup {[capoluoghi_coords |-> SubSeq(Capoluoghi, 1, n), color_map |-> m] :
             n \in {0, 3},
             m \in {[kind |-> "dict", map |-> [ROSSO |-> "#ff0000"]],
                    [kind |-> "number", map |-> EmptyConfig]}}

\* query points: nearest to Sondrio, at the same distance from Milano and
\* Bergamo, south of all, and one without a finite latitude
EnrichPoints ==
    << [lat |-> 461, lon |-> 98], [lat |-> 456, lon |-> 94],
       [lat |-> 454, lon |-> 95], [lat |-> NaN, lon |-> 95] >>

\* scores with their tiers as predict writes them, and one foreign tier
EnrichScores ==
    << [risk_score |-> 299,  alert_level |-> "VERDE"],
       [risk_score |-> 300,  alert_level |-> "GIALLO"],
       [risk_score |-> -10,  alert_level |-> "BLU"],
       [risk_score |-> 1300, alert_level |-> "ROSSO"] >>

EnrichRows ==
    {[lat |-> EnrichPoints[p].lat, lon |-> EnrichPoints[p].lon,
      risk_score |-> EnrichScores[k].risk_score,
      alert_level |-> EnrichScores[k].alert_level] :
        p \in 1..Len(EnrichPoints), k \in 1..Len(EnrichScores)}

\* batches of up to MaxRecords records, with and without the two columns
Batches ==
    UNION {{[has_score |-> f[1], has_level |-> f[2], rows |-> r] :
               r \in [1..n -> EnrichRows],
               f \in {<< TRUE, TRUE >>, << FALSE, TRUE >>, << TRUE, FALSE >>}} :
              n \in 0..MaxRecords}

-----------------------------------------------------------------------------
(* Calls of the samplers and of the tiering on their own                   *)

WeatherCall ==
    /\ w_out' = [called |-> TRUE,
                 res |-> ExtractWeatherFeatures(w_in.lat, w_in.lon, w_in.cfg, w_in.resp)]
    /\ UNCHANGED << predictor_vars, a_in, w_in, t_in, t_out, c_in, c_out, v_in, v_out, e_in, e_out, pc >>

TerrainCall ==
    /\ t_out' = [called |-> TRUE, res |-> ExtractTerrainFeatures(t_in.lat, t_in.dem)]
    /\ UNCHANGED << predictor_vars, a_in, w_in, w_out, t_in, c_in, c_out, v_in, v_out, e_in, e_out, pc >>

\* ml_forecast.py:318-325 for one score
Classify ==
    /\ c_out' = AlertLevel(c_in)
    /\ UNCHANGED << predictor_vars, a_in, w_in, w_out, t_in, t_out, c_in, v_in, v_out, e_in, e_out, pc >>

\* create_feature_vector(lat, lon, date) on the object and arguments v_in
VectorCall ==
    /\ v_out' = [called |-> TRUE,
                 res |-> CreateFeatureVector(v_in.fe, v_in.lat, v_in.lon, v_in.date, v_in.resp)]
    /\ UNCHANGED << predictor_vars, a_in, w_in, w_out, t_in, t_out, c_in, c_out, v_in, e_in, e_out, pc >>

\* enrich_predictions(predictions_gdf) on the processor and batch e_in; the
\* spatial query may return any of the nearest indices
EnrichCall ==
    /\ \E indices \in QueryResults(e_in.proc, e_in.batch) :
          e_out' = [called |-> TRUE,
                    res |-> EnrichPredictions(e_in.proc, e_in.batch, indices)]
    /\ UNCHANGED << predictor_vars, a_in, w_in, w_out, t_in, t_out, c_in, c_out, v_in, v_out, e_in, pc >>

\* prepare_training_data on the arguments a_in
AssembleCall ==
    /\ PrepareTrainingData(a_in.events, a_in.draws, a_in.resps)
    /\ UNCHANGED << a_in, w_in, w_out, t_in, t_out, c_in, c_out, v_in, v_out, e_in, e_out, pc >>

-----------------------------------------------------------------------------
(* MLPipeline: pipeline.py:101-148                                         *)
(* A run stands at pc.at; each call a step makes on the predictor or the   *)
(* post-processor is one action, taken in the order of the step's code.    *)

pipeline_frame == << a_in, w_in, w_out, t_in, t_out, c_in, c_out, v_in, v_out >>

\* the run goes on to `next` when the call returned, and ends when it raised
Goes(next) == pc' = [pc EXCEPT !.at = IF exc' = "none" THEN next ELSE "failed"]

\* step2_train_model, first branch: the artifact exists and no retrain is
\* forced, so the model is loaded and the step returns   (lines 106-110)
Step2Load ==
    /\ pc.at = "step2" /\ file.exists /\ ~pc.force
    /\ LoadModel
    /\ Goes("step2_returned")
    /\ UNCHANGED << pipeline_frame, e_in, e_out >>

\* second branch: a feature engineer is built and set   (lines 113-117)
Step2SetEngineer(fe) ==
    /\ pc.at = "step2" /\ ~(file.exists /\ ~pc.force)
    /\ SetFeatureEngineer(fe)
    /\ pc' = [pc EXCEPT !.at = "engineer_set"]
    /\ UNCHANGED << pipeline_frame, e_in, e_out >>

\* X, y = self.predictor.prepare_training_data(events_gdf)   (line 119)
Step2Prepare ==
    /\ pc.at = "engineer_set"
    /\ PrepareTrainingData(a_in.events, a_in.draws, a_in.resps)
    /\ Goes("prepared")
    /\ UNCHANGED << pipeline_frame, e_in, e_out >>

\* metrics = self.predictor.train(X, y)   (line 120), X and y being what
\* line 119 returned
Step2Train ==
    /\ pc.at = "prepared"
    /\ Train(PrepareResult(feature_engineer, config, a_in.events, a_in.draws, a_in.resps).X,
             PrepareResult(feature_engineer, config, a_in.events, a_in.draws, a_in.resps).y)
    /\ Goes("trained")
    /\ UNCHANGED << pipeline_frame, e_in, e_out >>

\* self.predictor.save_model(str(model_path))   (line 121)
Step2Save ==
    /\ pc.at = "trained"
    /\ SaveModel
    /\ Goes("step2_returned")
    /\ UNCHANGED << pipeline_frame, e_in, e_out >>

\* predictions_raw_df = self.predictor.predict(grid_points)   (line 135)
Step3Predict(locations, resps) ==
    /\ pc.at = "step2_returned"
    /\ Predict(locations, resps)
    /\ Goes("predicted")
    /\ UNCHANGED << pipeline_frame, e_in, e_out >>

\* the frame of lines 138-145: the records at or above the threshold, with
\* their points
FilteredBatch(records, threshold) ==
    [has_score |-> TRUE, has_level |-> TRUE,
     rows |-> SelectSeq([i \in 1..Len(records) |->
                            [lat |-> records[i].latitude, lon |-> records[i].longitude,
                             risk_score |-> records[i].risk_score,
                             alert_level |-> records[i].alert_level]],
                        LAMBDA r : r.risk_score >= threshold)]

\* the processor after enrich_predictions: no attribute of self is assigned
\* (post_processor.py:32-102)
ProcessorAfterEnrich(proc) == proc

\* self.post_processor.enrich_predictions(predictions_gdf)   (line 148)
Step3Enrich ==
    /\ pc.at = "predicted"
    /\ LET batch == FilteredBatch(predictions, a_in.params.prediction.min_risk_score_threshold)
       IN  /\ e_in' = [proc |-> ProcessorAfterEnrich(e_in.proc), batch |-> batch]
           /\ \E indices \in QueryResults(e_in.proc, batch) :
                 e_out' = [called |-> TRUE,
                           res |-> EnrichPredictions(e_in.proc, batch, indices)]
    /\ pc' = [pc EXCEPT !.at = "enriched"]
    /\ UNCHANGED << predictor_vars, pipeline_frame >>

\* the step goes on after a call of the predictor
StepReturn ==
    /\ pc.at \in {"engineer_set", "prepared", "trained", "step2_returned"}
    /\ Return
    /\ UNCHANGED << pipeline_frame, e_in, e_out, pc >>

-----------------------------------------------------------------------------
(* Specifications                                                          *)

\* RiskPredictor.__init__   (ml_forecast.py:194-200)
FreshPredictor ==
    /\ model = NoneModel
    /\ scaler = NewScaler
    /\ feature_engineer = NoEngineer
    /\ feature_names_ = << >>
    /\ op = "idle" /\ exc = "none"
    /\ predictions = << >> /\ raw_scores = << >>
    /\ q_in = NoQuery
    /\ X_out = NoFrame /\ y_out = << >>
    /\ events_in = NoEvents
    /\ pre = << NoneModel, NewScaler, << >> >>
    /\ n_requests = 0 /\ n_vectors = 0
    /\ ever_ready = FALSE
    /\ saved = NothingSaved

\* a fresh predictor, nothing at the model path
PredictorInit == FreshPredictor /\ file = NoFile

IdleAssemble ==
    a_in = [events |-> NoEvents, draws |-> << >>, resps |-> << >>, params |-> EmptyConfig]
IdleWeather ==
    /\ w_in = [lat |-> 0, lon |-> 0, cfg |-> EmptyConfig, resp |-> OkResponse(<< >>)]
    /\ w_out = [called |-> FALSE, res |-> [exc |-> "none", ret |-> NoData, keys |-> << >>, requests |-> 0]]
IdleTerrain ==
    /\ t_in = [lat |-> 0, dem |-> NoEngineer.dem]
    /\ t_out = [called |-> FALSE, res |-> [exc |-> "none", ret |-> NoTerrain, keys |-> << >>, source |-> "none"]]
IdleClassify == c_in = 0 /\ c_out = "none"
IdleVector ==
    /\ v_in = [fe |-> NoEngineer, lat |-> 0, lon |-> 0,
               date |-> [kind |-> "datetime", ord |-> 0], resp |-> OkResponse(<< >>)]
    /\ v_out = [called |-> FALSE,
                res |-> [exc |-> "none", vec |-> NoVector, columns |-> << >>, requests |-> 0]]
IdlePipeline == pc = [at |-> "off", force |-> FALSE]
IdleEnrich ==
    /\ e_in = [proc |-> NoProcessor, batch |-> NoBatch]
    /\ e_out = [called |-> FALSE, res |-> [exc |-> "none", handled |-> FALSE, records |-> << >>]]

\* ---- extract_weather_features on every input
InitWeather ==
    /\ IdlePipeline
    /\ PredictorInit /\ config = EmptyConfig
    /\ IdleVector /\ IdleEnrich
    /\ IdleAssemble /\ IdleTerrain /\ IdleClassify
    /\ w_in \in {[lat |-> p.lat, lon |-> p.lon, cfg |-> c, resp |-> r] :
                    p \in Points, c \in WeatherConfigs, r \in Responses}
    /\ w_out = [called |-> FALSE, res |-> [exc |-> "none", ret |-> NoData, keys |-> << >>, requests |-> 0]]

NextWeather == WeatherCall

SpecWeather == InitWeather /\ [][NextWeather]_vars

\* ---- extract_terrain_features on every input
InitTerrain ==
    /\ IdlePipeline
    /\ PredictorInit /\ config = EmptyConfig
    /\ IdleVector /\ IdleEnrich
    /\ IdleAssemble /\ IdleWeather /\ IdleClassify
    /\ t_in \in {[lat |-> l, dem |-> d] : l \in Latitudes, d \in DemSources}
    /\ t_out = [called |-> FALSE, res |-> [exc |-> "none", ret |-> NoTerrain, keys |-> << >>, source |-> "none"]]

NextTerrain == TerrainCall

SpecTerrain == InitTerrain /\ [][NextTerrain]_vars

\* ---- the tiering on every score
InitClassify ==
    /\ IdlePipeline
    /\ PredictorInit /\ config = EmptyConfig
    /\ IdleVector /\ IdleEnrich
    /\ IdleAssemble /\ IdleWeather /\ IdleTerrain
    /\ c_in \in Scores
    /\ c_out = "none"

NextClassify == Classify

SpecClassify == InitClassify /\ [][NextClassify]_vars

\* ---- create_feature_vector on every point, raster and provider answer
VectorEngineers ==
    {[present |-> TRUE, config |-> c, dem |-> d] :
        c \in {EmptyConfig, [weather_past_days |-> 3, weather_forecast_days |-> 2]},
        d \in {NoEngineer.dem,
               [GoodDem(<< >>) EXCEPT !.opens = FALSE],
               GoodDem(DemBand(MinDemCells - 1, 1)),
               GoodDem(DemBand(MaxCells, 1))}}

VectorDates == {[kind |-> "datetime", ord |-> o] : o \in {19500, Now.ord}}

InitVector ==
    /\ IdlePipeline
    /\ PredictorInit /\ config = EmptyConfig
    /\ IdleEnrich
    /\ IdleAssemble /\ IdleWeather /\ IdleTerrain /\ IdleClassify
    /\ v_in \in {[fe |-> fe, lat |-> p.lat, lon |-> p.lon, date |-> d, resp |-> r] :
                    fe \in VectorEngineers, p \in Points, d \in VectorDates,
                    r \in TransportFailures \cup MalformedResponses \cup FewResponses}
    /\ v_out = [called |-> FALSE,
                res |-> [exc |-> "none", vec |-> NoVector, columns |-> << >>, requests |-> 0]]

NextVector == VectorCall

SpecVector == InitVector /\ [][NextVector]_vars

\* ---- enrich_predictions on every processor and batch
InitEnrich ==
    /\ IdlePipeline
    /\ PredictorInit /\ config = EmptyConfig
    /\ IdleVector
    /\ IdleAssemble /\ IdleWeather /\ IdleTerrain /\ IdleClassify
    /\ e_in \in {[proc |-> ProcessorInit(c), batch |-> b] :
                    c \in ProcessorConfigs, b \in Batches}
    /\ e_out = [called |-> FALSE, res |-> [exc |-> "none", handled |-> FALSE, records |-> << >>]]

NextEnrich == EnrichCall

SpecEnrich == InitEnrich /\ [][NextEnrich]_vars

\* ---- one prepare_training_data call on every frame
InitAssemble ==
    /\ IdlePipeline
    /\ PredictorInit
    /\ IdleVector /\ IdleEnrich
    /\ IdleWeather /\ IdleTerrain /\ IdleClassify
    /\ a_in \in {[events |-> c.events, draws |-> c.draws, resps |-> c.resps, params |-> p] :
                    c \in PrepareCalls(Frames, 0..(NumSeeds - 1)), p \in MlParams}
    \* RiskPredictor(self.config.get('ml_params', {}))   (pipeline.py:49)
    /\ config = PredictorConfig(a_in.params)

NextAssemble ==
    \/ AssembleCall
    \/ Return /\ UNCHANGED << a_in, w_in, w_out, t_in, t_out, c_in, c_out, v_in, v_out, e_in, e_out, pc >>
    \/ \E fe \in Engineers :
          SetFeatureEngineer(fe) /\ UNCHANGED << a_in, w_in, w_out, t_in, t_out, c_in, c_out, v_in, v_out, e_in, e_out, pc >>

SpecAssemble == InitAssemble /\ [][NextAssemble]_vars

\* ---- the life of a RiskPredictor
Init ==
    /\ IdlePipeline
    /\ PredictorInit
    /\ IdleVector /\ IdleEnrich
    /\ config \in SeedConfigs
    /\ IdleAssemble /\ IdleWeather /\ IdleTerrain /\ IdleClassify


\* the (X, y) a caller passes to train: what prepare_training_data returned for
\* some frame, or an empty frame
TrainingSets ==
    {[X |-> NoFrame, y |-> << >>]}
    \cup {[X |-> r.X, y |-> r.y] :
             r \in {q \in {PrepareResult(fe, EmptyConfig, c.events, c.draws, c.resps) :
                              fe \in Engineers, c \in PlainCalls} : q.exc = "none"}}

\* artifacts found at the model path that hold only some of the three parts
ForeignArtifacts ==
    {[exists |-> TRUE, has |-> h,
      model    |-> IF "model" \in h THEN [kind |-> "fitted", f |-> 1, n |-> 12] ELSE NoneModel,
      scaler   |-> IF "scaler" \in h
                   THEN [fitted |-> TRUE, s |-> 1, names |-> FeatureOrder] ELSE NewScaler,
      features |-> IF "features" \in h THEN FeatureOrder ELSE << >>] :
        h \in SUBSET {"model", "scaler", "features"}}

\* ---- a run of step2_train_model and step3_make_predictions
\* artifacts a run finds at the model path: none, one saved by an earlier
\* run, and incomplete ones
PipelineFiles == {NoFile} \cup ForeignArtifacts

InitPipeline ==
    /\ FreshPredictor
    /\ file \in PipelineFiles
    /\ IdleVector /\ IdleWeather /\ IdleTerrain /\ IdleClassify
    /\ pc \in {[at |-> "step2", force |-> f] : f \in BOOLEAN}
    /\ a_in \in {[events |-> c.events, draws |-> c.draws, resps |-> c.resps, params |-> p] :
                    c \in PlainCalls, p \in MlParams}
    \* RiskPredictor(self.config.get('ml_params', {}))   (pipeline.py:49)
    /\ config = PredictorConfig(a_in.params)
    \* PredictionPostProcessor(self.config)   (pipeline.py:50)
    /\ e_in \in {[proc |-> ProcessorInit(c), batch |-> NoBatch] :
                    c \in {EmptyConfig, [capoluoghi_coords |-> Capoluoghi],
                           [capoluoghi_coords |-> Capoluoghi,
                            color_map |-> [kind |-> "number", map |-> EmptyConfig]]}}
    /\ e_out = [called |-> FALSE, res |-> [exc |-> "none", handled |-> FALSE, records |-> << >>]]

NextPipeline ==
    \/ Step2Load
    \/ \E fe \in Engineers : Step2SetEngineer(fe)
    \/ Step2Prepare
    \/ Step2Train
    \/ Step2Save
    \/ \E n \in 1..MaxLocations :
          \E locations \in [1..n -> QueryPoints], resps \in [1..n -> FewResponses] :
             Step3Predict(locations, resps)
    \/ Step3Enrich
    \/ StepReturn

SpecPipeline == InitPipeline /\ [][NextPipeline]_vars

sampler_vars == << a_in, w_in, w_out, t_in, t_out, c_in, c_out, v_in, v_out, e_in, e_out, pc >>

Next ==
    \/ \E fe \in Engineers : SetFeatureEngineer(fe) /\ UNCHANGED sampler_vars
    \/ \E c \in PlainCalls :
          PrepareTrainingData(c.events, c.draws, c.resps) /\ UNCHANGED sampler_vars
    \/ \E t \in TrainingSets : Train(t.X, t.y) /\ UNCHANGED sampler_vars
    \/ \E n \in 0..MaxLocations :
          \E locations \in [1..n -> QueryPoints], resps \in [1..n -> FewResponses] :
             Predict(locations, resps) /\ UNCHANGED sampler_vars
    \/ SaveModel /\ UNCHANGED sampler_vars
    \/ LoadModel /\ UNCHANGED sampler_vars
    \/ \E blob \in ForeignArtifacts : StoreArtifact(blob) /\ UNCHANGED sampler_vars
    \/ Return /\ UNCHANGED sampler_vars

Spec == Init /\ [][Next]_vars


-----------------------------------------------------------------------------
(* Properties                                                              *)

TierRank(t) ==
    CASE t = "VERDE" -> 1 [] t = "GIALLO" -> 2 [] t = "ARANCIONE" -> 3 [] t = "ROSSO" -> 4

\* the tier the breakpoints 30 / 50 / 70 give a score in tenths
TierIs(t, score) ==
    /\ (t = "ROSSO")     <=> (score >= 700)
    /\ (t = "ARANCIONE") <=> (500 <= score /\ score < 700)
    /\ (t = "GIALLO")    <=> (300 <= score /\ score < 500)
    /\ (t = "VERDE")     <=> (score < 300)

\* C1: every score, also below 0 and above 100, gets exactly one tier: ROSSO
\* iff score >= 70, ARANCIONE iff 50 <= score < 70, GIALLO iff 30 <= score < 50,
\* VERDE iff score < 30; and no lower score gets a higher tier.
C1_TierByBreakpoints ==
    c_out # "none" =>
        /\ c_out \in {"ROSSO", "ARANCIONE", "GIALLO", "VERDE"}
        /\ TierIs(c_out, c_in)
        /\ \A t \in Scores : t <= c_in => TierRank(AlertLevel(t)) <= TierRank(c_out)

C1_Witness == c_in > 1000 /\ c_out = "ROSSO"

\* C2: every risk_score of a predict result lies in [0, 100]: a raw output
\* below 0 becomes 0, one above 100 becomes 100, any other is kept; and the
\* alert tier of the record is the tier of that clipped score.
C2_ScoresClipped ==
    (op = "predict" /\ exc = "none") =>
        /\ Len(predictions) = Len(raw_scores)
        /\ \A i \in 1..Len(predictions) :
              LET r == raw_scores[i]
                  p == predictions[i]
              IN  /\ 0 <= p.risk_score /\ p.risk_score <= 1000
                  /\ r < 0 => p.risk_score = 0
                  /\ r > 1000 => p.risk_score = 1000
                  /\ (0 <= r /\ r <= 1000) => p.risk_score = r
                  /\ TierIs(p.alert_level, p.risk_score)

C2_Witness ==
    /\ op = "predict" /\ exc = "none"
    /\ \E i \in 1..Len(raw_scores) : raw_scores[i] > 1000 /\ predictions[i].risk_score = 1000
    /\ \E i \in 1..Len(raw_scores) : raw_scores[i] < 0 /\ predictions[i].risk_score = 0

\* C3: predict on a predictor on which neither train nor load_model has
\* succeeded fails with RuntimeError before any feature vector is built or any
\* weather request is made, and returns no records.
C3_NotReadyError ==
    (op = "predict" /\ ~ever_ready) =>
        /\ exc = "RuntimeError"
        /\ n_vectors = 0 /\ n_requests = 0
        /\ predictions = << >>

\* C4: load_model of an artifact that lacks one of the three parts raises and
\* leaves model, scaler and feature_names_ as they were before the call.
C4_LoadAllOrNothing ==
    (op = "load_model" /\ file.exists /\ file.has # {"model", "scaler", "features"}) =>
        /\ exc # "none"
        /\ << model, scaler, feature_names_ >> = pre

C6_TwoRowsPerEvent ==
    (op = "prepare_training_data" /\ feature_engineer.present /\ events_in.has_intensity) =>
        LET K == Len(events_in.rows)
        IN  /\ exc = "none"
            /\ Len(X_out.rows) = 2 * K
            /\ Len(y_out) = 2 * K
            /\ \A i \in 1..K : y_out[i] = events_in.rows[i].intensita
            /\ \A j \in (K + 1)..(2 * K) : y_out[j] = 0

\* C7: for a latitude outside [-90, 90] or a longitude outside [-180, 180]
\* extract_weather_features returns the fixed fallback 5 / 15 / 30 / 10 and
\* issues no request.
C7_OutOfRangeFallback ==
    (/\ w_out.called
     /\ \/ w_in.lat < -900 \/ w_in.lat > 900
        \/ w_in.lon < -1800 \/ w_in.lon > 1800) =>
        /\ w_out.res.exc = "none"
        /\ w_out.res.ret = [precip_1d_past |-> 5, precip_3d_past |-> 15,
                            precip_7d_past |-> 30, precip_3d_forecast |-> 10]
        /\ w_out.res.requests = 0

\* an out-of-range point for which the provider would have answered well
C7_Witness ==
    /\ w_out.called
    /\ w_in.lat = 901 /\ w_in.lon = 95
    /\ w_in.resp = OkResponse(TenDays)
    /\ w_in.cfg = EmptyConfig

\* the past-day window of a call
PastWindow(cfg) == IF "weather_past_days" \in DOMAIN cfg THEN cfg["weather_past_days"] ELSE 7
ForecastWindow(cfg) ==
    IF "weather_forecast_days" \in DOMAIN cfg THEN cfg["weather_forecast_days"] ELSE 3

InRange(lat, lon) == -900 <= lat /\ lat <= 900 /\ -1800 <= lon /\ lon <= 1800

\* C8: for an in-range point, a transport failure, a response of a malformed
\* or missing shape, or fewer daily values than the past-day window gives the
\* fixed fallback and raises nothing.
C8_FailureFallback ==
    (/\ w_out.called
     /\ InRange(w_in.lat, w_in.lon)
     /\ \/ w_in.resp \in TransportFailures \cup MalformedResponses
        \/ /\ w_in.resp \in WellFormedResponses
           /\ Len(w_in.resp.days) < PastWindow(w_in.cfg)) =>
        /\ w_out.res.exc = "none"
        /\ w_out.res.ret = [precip_1d_past |-> 5, precip_3d_past |-> 15,
                            precip_7d_past |-> 30, precip_3d_forecast |-> 10]

\* the value of a daily entry, a null counting as 0
DayValue(e) == IF e.k = "null" THEN 0 ELSE e.n

\* sum of the entries lo..hi (1-based, inclusive) of a list of days
DaySum(days, lo, hi) == SumSeq([i \in 1..(hi - lo + 1) |-> DayValue(days[lo + i - 1])])

\* C9: on a successful response, for every past-day window N >= 1 and forecast
\* window F, with nulls as 0: precip_1d_past is the last past day,
\* precip_3d_past the sum of the last 3 past days (all N when N < 3),
\* precip_7d_past the sum of the N past days, precip_3d_forecast the sum of
\* the F forecast days.
C9_SuccessSums ==
    LET N == PastWindow(w_in.cfg)
        F == ForecastWindow(w_in.cfg)
        d == w_in.resp.days
        first3 == IF N > 3 THEN N - 2 ELSE 1
    IN  (/\ w_out.called
         /\ InRange(w_in.lat, w_in.lon)
         /\ w_in.resp \in WellFormedResponses
         /\ N >= 1
         /\ Len(d) = N + F) =>
            /\ w_out.res.exc = "none"
            /\ w_out.res.ret.precip_1d_past = DayValue(d[N])
            /\ w_out.res.ret.precip_3d_past = DaySum(d, first3, N)
            /\ w_out.res.ret.precip_7d_past = DaySum(d, 1, N)
            /\ w_out.res.ret.precip_3d_forecast = DaySum(d, N + 1, N + F)

\* C10: for every point and every state of the raster source
\* extract_terrain_features returns a record of four numbers, elevation_mean,
\* elevation_std, slope_mean and roughness, and no exception leaves the call.
C10_TerrainTotal ==
    t_out.called =>
        /\ t_out.res.exc = "none"
        /\ DOMAIN t_out.res.ret = {"elevation_mean", "elevation_std", "slope_mean", "roughness"}
        /\ \A k \in DOMAIN t_out.res.ret : t_out.res.ret[k] \in Int
        /\ t_out.res.source \in {"raster", "fallback"}

\* a readable raster with too few valid cells under the buffer
C10_Witness ==
    /\ t_out.called
    /\ t_in.dem.configured /\ t_in.dem.exists /\ t_in.dem.opens /\ t_in.dem.reads
    /\ t_in.dem.overlap /\ t_in.dem.crs # "none"
    /\ Len(ElevationData(t_in.dem.band)) < MinDemCells
    /\ t_out.res.exc = "none"

\* a raster that is configured, present and readable, in some CRS, under the
\* buffer
RasterReadable(dem) ==
    /\ dem.configured /\ dem.exists /\ dem.opens /\ dem.reads
    /\ dem.overlap /\ dem.crs # "none"

\* C11: with a readable raster, at least 10 valid cells under the buffer give
\* statistics of those cells (elevation_mean their mean, elevation_std their
\* standard deviation), fewer than 10 give the fallback values.
C11_RasterStatistics ==
    (t_out.called /\ RasterReadable(t_in.dem)) =>
        LET cells == ElevationData(t_in.dem.band)
        IN  IF Len(cells) >= 10
            THEN /\ t_out.res.exc = "none"
                 /\ t_out.res.source = "raster"
                 /\ t_out.res.ret.elevation_mean = Mean(cells)
                 /\ t_out.res.ret.elevation_std = Std(cells)
            ELSE /\ t_out.res.exc = "none"
                 /\ t_out.res.ret = [elevation_mean |-> 200 + (t_in.lat - 454) * 150,
                                     elevation_std  |-> 150,
                                     slope_mean     |-> 5 + (t_in.lat - 454) * 2,
                                     roughness      |-> 20]

\* C12: on the fallback path the record is a function of the latitude alone,
\* elevation_mean = 200 + (lat - 45.4) * 1500, elevation_std = 150,
\* slope_mean = 5 + (lat - 45.4) * 20, roughness = 20 (tenths of a degree:
\* 150 and 2 per tenth); every raster state that falls back gives the same
\* record for the same latitude, and the call leaves the object as it was.
C12_FallbackByLatitude ==
    /\ [](  (t_out.called /\ t_out.res.source = "fallback") =>
              /\ t_out.res.ret = [elevation_mean |-> 200 + (t_in.lat - 454) * 150,
                                  elevation_std  |-> 150,
                                  slope_mean     |-> 5 + (t_in.lat - 454) * 2,
                                  roughness      |-> 20]
              /\ \A d \in DemSources :
                    ExtractTerrainFeatures(t_in.lat, d).source = "fallback" =>
                        ExtractTerrainFeatures(t_in.lat, d).ret = t_out.res.ret)
    /\ [][t_in' = t_in /\ feature_engineer' = feature_engineer /\ config' = config]_vars

\* a fallback north of the reference latitude, from an unreadable raster
C12_Witness ==
    /\ t_out.called /\ t_out.res.source = "fallback"
    /\ t_in.lat = 461
    /\ t_in.dem.configured /\ t_in.dem.exists /\ ~t_in.dem.opens
    /\ t_out.res.ret.elevation_mean = 1250

\* ---- C13
\* the rows create_feature_vector built for the points of the last predict
BuiltRows ==
    [i \in 1..Len(q_in.locations) |->
        CreateFeatureVector(feature_engineer, q_in.locations[i].lat,
                            q_in.locations[i].lon, Now, q_in.resps[i])]

\* C13: every row create_feature_vector builds has the twelve names in the
\* one order, whichever way the terrain and the weather were obtained: the
\* frame a successful prepare_training_data returns and the schema it records
\* have them, and so have the rows a successful predict built and the schema
\* its scaler was fitted on.
C13_OneSchema ==
    /\ (op = "prepare_training_data" /\ exc = "none") =>
          /\ X_out.columns = FeatureOrder
          /\ feature_names_ = FeatureOrder
          /\ \A i \in 1..Len(X_out.rows) :
                DOMAIN X_out.rows[i] = {FeatureOrder[k] : k \in 1..Len(FeatureOrder)}
    /\ (op = "predict" /\ exc = "none") =>
          /\ \A i \in 1..Len(BuiltRows) : BuiltRows[i].columns = FeatureOrder
          /\ feature_names_ = FeatureOrder
          /\ scaler.names = feature_names_

\* a successful predict on two points, the weather of the first from the
\* fallback and of the second from the response, with a raster configured
C13_Witness ==
    /\ op = "predict" /\ exc = "none"
    /\ Len(q_in.locations) = 2
    /\ q_in.resps[1].stage = "Timeout" /\ q_in.resps[2].stage = "ok"
    /\ q_in.locations[1].lat = 461 /\ q_in.locations[2].lat = 461
    /\ feature_engineer.dem.configured
    /\ BuiltRows[1].vec.precip_7d_past # BuiltRows[2].vec.precip_7d_past


\* ---- C14
\* C14: create_feature_vector never fails: whatever the point and whatever the
\* terrain and weather sources give, it returns one row with all twelve fields.
C14_VectorTotal ==
    v_out.called =>
        /\ v_out.res.exc = "none"
        /\ DOMAIN v_out.res.vec = {FeatureOrder[k] : k \in 1..Len(FeatureOrder)}


\* ---- C15
\* the reference localities the processor of the call was configured with
Localities == ConfigGet(e_in.proc.config, "capoluoghi_coords", << >>)

\* C15: without reference localities, enrich_predictions on a batch that is
\* not empty raises nothing, returns as many records as it was given, and
\* every record has comune "Unknown" and provincia "N/A".
C15_NoLocalities ==
    (e_out.called /\ Localities = << >> /\ e_in.batch.rows # << >>) =>
        /\ e_out.res.exc = "none"
        /\ Len(e_out.res.records) = Len(e_in.batch.rows)
        /\ \A i \in 1..Len(e_out.res.records) :
              /\ e_out.res.records[i].comune = "Unknown"
              /\ e_out.res.records[i].provincia = "N/A"

\* two records enriched without localities, no step having raised
C15_Witness ==
    /\ e_out.called /\ ~e_out.res.handled
    /\ "capoluoghi_coords" \in DOMAIN e_in.proc.config /\ Localities = << >>
    /\ Len(e_in.batch.rows) = 2
    /\ e_out.res.records[2].comune = "Unknown"
    /\ e_out.res.records[2].risk_level = "R4"

\* ---- C16
\* squared distance in degrees of longitude and latitude between a configured
\* locality and the point of a row
GeoDist2(entry, row) ==
    (entry.lon - row.lon) * (entry.lon - row.lon)
    + (entry.lat - row.lat) * (entry.lat - row.lat)

\* the locality entry k is a nearest one to the row and gave both names
NearestEntry(k, row, comune, provincia) ==
    /\ Localities[k].name = comune
    /\ Localities[k].prov = provincia
    /\ \A j \in 1..Len(Localities) :
          GeoDist2(Localities[k], row) <= GeoDist2(Localities[j], row)

\* C16: with reference localities, every record gets the comune and the
\* provincia of one locality entry, and no other entry is strictly closer to
\* the record's point: for whatever _enrich_locations writes, and for the
\* records enrich_predictions returns when no step raised.
C16_NearestLocality ==
    (e_out.called /\ Localities # << >> /\ e_in.batch.rows # << >>) =>
        /\ \A indices \in QueryResults(e_in.proc, e_in.batch) :
              LET loc == EnrichLocations(e_in.proc, e_in.batch, indices)
              IN  loc.exc = "none" =>
                     \A i \in 1..Len(e_in.batch.rows) :
                        \E k \in 1..Len(Localities) :
                           NearestEntry(k, e_in.batch.rows[i], loc.comune[i], loc.provincia[i])
        /\ (e_out.res.exc = "none" /\ ~e_out.res.handled) =>
              \A i \in 1..Len(e_in.batch.rows) :
                 \E k \in 1..Len(Localities) :
                    NearestEntry(k, e_in.batch.rows[i], e_out.res.records[i].comune,
                                 e_out.res.records[i].provincia)

\* three localities; the first record lies nearest to Sondrio, the second at
\* the same distance from Milano and Bergamo and was given Bergamo
C16_Witness ==
    /\ e_out.called /\ ~e_out.res.handled
    /\ Len(Localities) = 3
    /\ Len(e_in.batch.rows) = 2
    /\ e_out.res.records[1].comune = "Sondrio" /\ e_out.res.records[1].provincia = "SO"
    /\ e_out.res.records[2].comune = "Bergamo" /\ e_out.res.records[2].provincia = "BG"
    /\ GeoDist2(Localities[1], e_in.batch.rows[2]) = GeoDist2(Localities[3], e_in.batch.rows[2])

\* ---- C17
\* a step of the try block raised
StepRaised ==
    \E indices \in QueryResults(e_in.proc, e_in.batch) :
       TryEnrich(e_in.proc, e_in.batch,
                 EnrichLocations(e_in.proc, e_in.batch, indices)).exc # "none"

\* C17: when a step of the enrichment raises, enrich_predictions raises
\* nothing and returns every record it was given, in order, each with its
\* point, risk_score and alert_level as given.
C17_DegradesToPassThrough ==
    (e_out.called /\ e_in.batch.rows # << >> /\ StepRaised) =>
        /\ e_out.res.exc = "none"
        /\ Len(e_out.res.records) = Len(e_in.batch.rows)
        /\ \A i \in 1..Len(e_in.batch.rows) :
              /\ e_out.res.records[i].latitude = e_in.batch.rows[i].lat
              /\ e_out.res.records[i].longitude = e_in.batch.rows[i].lon
              /\ e_out.res.records[i].risk_score = e_in.batch.rows[i].risk_score
              /\ e_out.res.records[i].alert_level = e_in.batch.rows[i].alert_level

\* two records, the frame lacking the column 'alert_level': the KeyError was
\* handled and both records came back
C17_Witness ==
    /\ e_out.called /\ e_out.res.handled
    /\ ~e_in.batch.has_level
    /\ Len(e_in.batch.rows) = 2 /\ Len(e_out.res.records) = 2
    /\ e_in.batch.rows[1] # e_in.batch.rows[2]
    /\ e_out.res.records[1].risk_score = 1300


\* ---- C18
\* the predictor can score a frame of the recorded schema
ModelReady ==
    /\ model.kind = "fitted"
    /\ scaler.fitted
    /\ scaler.names = feature_names_
    /\ model.n = Len(feature_names_)

\* C18: in a predict over several points with a ready model, a failure while
\* building the features of one point does not abort the batch: the call
\* raises nothing and returns the records of the other points.
C18_OnePointDoesNotAbort ==
    (/\ op = "predict" /\ ModelReady /\ feature_engineer.present
     /\ \E i \in 1..Len(BuiltRows) : BuiltRows[i].exc # "none"
     /\ \E j \in 1..Len(BuiltRows) : BuiltRows[j].exc = "none") =>
        /\ exc = "none"
        /\ \A j \in 1..Len(BuiltRows) :
              BuiltRows[j].exc = "none" =>
                 \E r \in 1..Len(predictions) :
                    /\ predictions[r].latitude = q_in.locations[j].lat
                    /\ predictions[r].longitude = q_in.locations[j].lon


\* ---- C19
\* the request of the i-th point of the last predict timed out or failed
RequestFailed(i) == q_in.resps[i] \in TransportFailures

\* the provider answered the i-th point with daily values as asked
RequestAnswered(i) ==
    q_in.resps[i].stage = "ok" /\ q_in.resps[i] \notin MalformedResponses

\* C19: with a ready model and a feature engineer, when the weather requests
\* of some of the query points time out or fail and the others are answered,
\* predict raises nothing and returns one record per point in input order,
\* each with latitude, longitude, risk_score and alert_level set; a point
\* whose request failed is scored from the fallback weather features.
C19_WeatherFailureStillScored ==
    (/\ op = "predict" /\ ModelReady /\ feature_engineer.present
     /\ Len(q_in.locations) >= 1
     /\ \A i \in 1..Len(q_in.locations) : RequestFailed(i) \/ RequestAnswered(i)) =>
        /\ exc = "none"
        /\ Len(predictions) = Len(q_in.locations)
        /\ \A i \in 1..Len(q_in.locations) :
              /\ predictions[i].latitude = q_in.locations[i].lat
              /\ predictions[i].longitude = q_in.locations[i].lon
              /\ predictions[i].risk_score \in 0..1000
              /\ predictions[i].alert_level \in {"ROSSO", "ARANCIONE", "GIALLO", "VERDE"}
              /\ predictions[i].risk_score = Clip(raw_scores[i], 0, 1000)
              /\ RequestFailed(i) =>
                    /\ \A k \in DOMAIN FallbackData :
                          BuiltRows[i].vec[k] = FallbackData[k]
                    /\ raw_scores[i] =
                          RawScore(model, ScalerTransform(scaler,
                                      Reindex(BuiltRows[i].vec, feature_names_)))

\* two points in range, the request of the second timed out and the first
\* was answered: two records, the second built on the fallback weather
C19_Witness ==
    /\ op = "predict" /\ exc = "none" /\ ModelReady
    /\ Len(predictions) = 2
    /\ RequestAnswered(1) /\ RequestFailed(2)
    /\ ~CoordsInvalid(q_in.locations[2].lat, q_in.locations[2].lon)
    /\ n_requests = 2
    /\ BuiltRows[2].vec.precip_3d_forecast = FallbackData.precip_3d_forecast
    /\ BuiltRows[1].vec.precip_3d_forecast # FallbackData.precip_3d_forecast


\* ---- C20
\* the training set another run builds from the same events, configuration
\* and provider answers, the generator of np.random being in state sd
OtherRun(sd) ==
    PrepareResult(feature_engineer, config, events_in,
                  DrawsFor(Len(events_in.rows), sd), a_in.resps)

\* C20: two runs on the same historical events, the same configuration and
\* the same random seed build the same training set: whatever state the
\* generator of np.random is in, which the configured seed does not set, a
\* second prepare_training_data returns the frame and the labels of the first.
C20_SameTrainingSet ==
    (op = "prepare_training_data" /\ exc = "none") =>
        \A sd \in 0..(NumSeeds - 1) :
           /\ OtherRun(sd).exc = "none"
           /\ OtherRun(sd).X = X_out
           /\ OtherRun(sd).y = y_out


\* ---- C21
\* the study area of the configuration the predictor was built from
StudyArea == a_in.params.prediction.lombardy_bounds

\* C21: every negative sample of a successful prepare_training_data lies
\* inside the study area of the configuration, bounds included, and is dated
\* no later than now and no earlier than 3650 days before now.
C21_NegativesInStudyArea ==
    (op = "prepare_training_data" /\ exc = "none") =>
        LET K == Len(events_in.rows)
        IN  \A j \in 1..K :
               /\ StudyArea.lat_min <= X_out.rows[K + j].latitude
               /\ X_out.rows[K + j].latitude <= StudyArea.lat_max
               /\ StudyArea.lon_min <= X_out.rows[K + j].longitude
               /\ X_out.rows[K + j].longitude <= StudyArea.lon_max
               /\ a_in.draws[j].days \in 0..MaxPastWindow


\* ---- C22
\* C22: after any sequence of calls, failed ones included, a predictor that
\* holds a fitted model holds the scaler and the feature schema that go with
\* it: the scaler is fitted on the recorded schema, which has as many names as
\* the model has inputs.
C22_TripleTravelsTogether ==
    model.kind = "fitted" =>
        /\ scaler.fitted
        /\ scaler.names = feature_names_
        /\ model.n = Len(feature_names_)


\* ---- C23
\* C23: whenever step2_train_model has returned normally, by the load branch
\* or by the train branch, model, scaler, feature schema and feature engineer
\* are all set, and the predict of step3 does not fail for a missing one.
C23_ReadyAfterStep2 ==
    /\ pc.at = "step2_returned" =>
          /\ model.kind = "fitted"
          /\ scaler.fitted
          /\ feature_names_ # << >>
          /\ feature_engineer.present
    /\ (pc.at \in {"predicted", "failed"} /\ op = "predict") =>
          exc \notin {"RuntimeError", "AttributeError", "NotFittedError"}


\* ---- C27
\* C27: predict leaves model, scaler and feature_names_ as they were when it
\* was called, whether it returns or raises, and no step, enrich_predictions
\* included, changes the names, provinces, coordinates or spatial index of
\* the post-processor, whether the enrichment succeeds or is handled.
C27_ReadOnlyState ==
    /\ [](op = "predict" => << model, scaler, feature_names_ >> = pre)
    /\ [][e_in'.proc = e_in.proc]_vars

\* step3 ran on a trained predictor: predict returned records and their
\* enrichment failed on the color map and was handled, over three localities
C27_Witness ==
    /\ pc.at = "enriched" /\ op = "predict" /\ exc = "none"
    /\ pre[1].kind = "fitted" /\ pre[2].fitted
    /\ e_out.called /\ e_out.res.handled
    /\ Len(e_in.batch.rows) >= 1
    /\ Len(e_in.proc.capoluoghi_nomi) = 3


\* ---- C24
\* C24: in what a successful prepare_training_data returns for K events,
\* rows 1..K are the positives in the order of the events (row i has event
\* i's point and the month and day of event i's date, label i is event i's
\* intensity), rows K+1..2K are the negatives with label 0, and
\* feature_names_ is the column order of the returned frame.
C24_PositivesThenNegatives ==
    (op = "prepare_training_data" /\ exc = "none") =>
        LET K == Len(events_in.rows)
        IN  /\ Len(X_out.rows) = 2 * K /\ Len(y_out) = 2 * K
            /\ \A i \in 1..K :
                  /\ X_out.rows[i].latitude = events_in.rows[i].lat
                  /\ X_out.rows[i].longitude = events_in.rows[i].lon
                  /\ events_in.has_date =>
                        /\ X_out.rows[i].month = Month(events_in.rows[i].data_evento.ord)
                        /\ X_out.rows[i].day_of_year = DayOfYear(events_in.rows[i].data_evento.ord)
                  /\ events_in.has_intensity => y_out[i] = events_in.rows[i].intensita
            /\ \A j \in 1..K :
                  /\ y_out[K + j] = 0
                  /\ X_out.rows[K + j].day_of_year = DayOfYear(Now.ord - a_in.draws[j].days)
            /\ feature_names_ = X_out.columns

\* two dated events with different intensities gave four rows
C24_Witness ==
    /\ op = "prepare_training_data" /\ exc = "none"
    /\ Len(events_in.rows) = 2 /\ Len(X_out.rows) = 4
    /\ events_in.has_date /\ events_in.has_intensity
    /\ y_out[1] # y_out[2] /\ y_out[1] # 50 /\ y_out[2] # 50
    /\ X_out.rows[1].latitude # X_out.rows[2].latitude
    /\ X_out.rows[1].day_of_year # X_out.rows[2].day_of_year


\* ---- C25
\* the provider's answer raises nothing in extract_weather_features
AnswerHandled(resp) == resp \in TransportFailures \/ resp \notin MalformedResponses

\* C25: prepare_training_data does not fail because of an event's date: with
\* a feature engineer set and every weather request answered or failed in
\* transport, a frame of K >= 1 events, dates absent, null or malformed
\* included, gives 2K rows, and an event without a date is dated now.
C25_DatesNeverFail ==
    (/\ op = "prepare_training_data" /\ feature_engineer.present
     /\ Len(events_in.rows) >= 1
     /\ \A c \in 1..Len(a_in.resps) : AnswerHandled(a_in.resps[c])) =>
        LET K == Len(events_in.rows)
        IN  /\ exc = "none"
            /\ Len(X_out.rows) = 2 * K
            /\ \A i \in 1..K :
                  (~events_in.has_date \/ events_in.rows[i].data_evento.kind \in {"None", "NaN"})
                     => X_out.rows[i].day_of_year = DayOfYear(Now.ord)


\* ---- C26
\* C26: a call of extract_weather_features issues at most one request; when
\* the request of an in-range point fails in transport, that one request is
\* the only one, nothing is raised and the fallback is returned.
C26_SingleAttempt ==
    w_out.called =>
        /\ w_out.res.requests <= 1
        /\ (InRange(w_in.lat, w_in.lon) /\ w_in.resp \in TransportFailures) =>
              /\ w_out.res.requests = 1
              /\ w_out.res.exc = "none"
              /\ w_out.res.ret = [precip_1d_past |-> 5, precip_3d_past |-> 15,
                                  precip_7d_past |-> 30, precip_3d_forecast |-> 10]

\* the provider answered an in-range point with an HTTP error status: one
\* request was made and the fallback returned
C26_Witness ==
    /\ w_out.called
    /\ InRange(w_in.lat, w_in.lon) /\ w_in.resp.stage = "HTTPError"
    /\ w_out.res.requests = 1 /\ w_out.res.exc = "none"
    /\ w_out.res.ret.precip_7d_past = 30

\* ---- C30
\* every daily value of the provider's answer is a number at or above 0, or
\* a null, which counts as 0
NonNegativeDays(resp) ==
    \A i \in 1..Len(resp.days) :
       resp.days[i].k \in {"num", "numstr", "null"} /\ resp.days[i].n >= 0

\* C30: whatever extract_weather_features returns, fallback or sums, for
\* daily values at or above 0 and a past-day window of at least 1 day:
\* precip_1d_past <= precip_3d_past <= precip_7d_past.
C30_PastWindowsNested ==
    (/\ w_out.called /\ w_out.res.exc = "none"
     /\ PastWindow(w_in.cfg) >= 1
     /\ NonNegativeDays(w_in.resp)) =>
        /\ w_out.res.ret.precip_1d_past <= w_out.res.ret.precip_3d_past
        /\ w_out.res.ret.precip_3d_past <= w_out.res.ret.precip_7d_past


\* ---- C28
\* mm, in tenths, is 0.8 times the score s, in tenths, clipped to [0, 100]
\* and rounded to one decimal
ClippedProduct(mm, s) ==
    /\ 0 <= mm /\ mm <= 1000
    /\ 8 * s <= 0 => mm = 0
    /\ 8 * s >= 10000 => mm = 1000
    /\ (0 < 8 * s /\ 8 * s < 10000) =>
          /\ 10 * mm - 8 * s <= 5
          /\ 8 * s - 10 * mm <= 5

\* C28: on every record enriched without a step raising, precipitation_mm
\* is risk_score * 0.8 clipped to [0, 100] and rounded to one decimal; it lies
\* in [0, 100], and in [0, 80] when the score lies in [0, 100].
C28_PrecipitationProxy ==
    (e_out.called /\ e_out.res.exc = "none" /\ ~e_out.res.handled) =>
        \A i \in 1..Len(e_out.res.records) :
           /\ ClippedProduct(e_out.res.records[i].precipitation_mm,
                             e_out.res.records[i].risk_score)
           /\ e_out.res.records[i].risk_score \in 0..1000 =>
                 e_out.res.records[i].precipitation_mm \in 0..800

\* two records enriched: a score above 125 gave 100.0 and a score of 29.9
\* gave 23.9
C28_Witness ==
    /\ e_out.called /\ ~e_out.res.handled
    /\ Len(e_out.res.records) = 2
    /\ e_out.res.records[1].risk_score = 1300
    /\ e_out.res.records[1].precipitation_mm = 1000
    /\ e_out.res.records[2].risk_score = 299
    /\ e_out.res.records[2].precipitation_mm = 239

\* ---- C29
\* the row is one predict writes: a score in [0, 100] with its tier
WrittenByPredict(row) ==
    row.risk_score \in 0..1000 /\ row.alert_level = AlertLevel(row.risk_score)

\* C29: on every record enrich_predictions returns for a row predict wrote,
\* risk_level agrees with alert_level: ROSSO with R4, ARANCIONE with R3,
\* GIALLO with R2, VERDE with R1.
C29_LevelsAgree ==
    (e_out.called /\ e_out.res.exc = "none" /\ e_in.batch.has_score /\ e_in.batch.has_level) =>
        \A i \in 1..Len(e_out.res.records) :
           WrittenByPredict(e_in.batch.rows[i]) =>
              /\ e_out.res.records[i].alert_level = "ROSSO" <=> e_out.res.records[i].risk_level = "R4"
              /\ e_out.res.records[i].alert_level = "ARANCIONE" <=> e_out.res.records[i].risk_level = "R3"
              /\ e_out.res.records[i].alert_level = "GIALLO" <=> e_out.res.records[i].risk_level = "R2"
              /\ e_out.res.records[i].alert_level = "VERDE" <=> e_out.res.records[i].risk_level = "R1"


=============================================================================
